---------------------------- MODULE Spec2Model ----------------------------
(***************************************************************************)
(* A model of the MTS content-analytics service:                           *)
(*   services/youtube_client.py  channel resolver, result cache, fetch     *)
(*   services/mws_client.py      table-store read and upsert               *)
(*   services/llm_client.py      question classifier, local answer, LLM    *)
(*   main.py                     the /sync and /chat handlers              *)
(*                                                                         *)
(* Text is a sequence of characters, one string per character.  A Cyrillic *)
(* letter is written "c_<latin>" (lower case) or "C_<latin>" (upper case): *)
(* "c_v" is the letter ve, "c_ch" the letter che, "c_soft" the soft sign.  *)
(* A blank character with no escape of its own is written "u_<code point>":*)
(* "u_000b" is the vertical tab, "u_00a0" the no-break space.              *)
(***************************************************************************)
EXTENDS Integers, Sequences, FiniteSets, TLC

VARIABLES
    question,        \* the question text handed to the classifier functions
    qout,            \* what the last classifier call returned
    apiKey,          \* YOUTUBE_API_KEY, read from the environment at import
    defaultChannel,  \* YOUTUBE_CHANNEL_ID, read from the environment at import
    channel,         \* the channel reference handed to the resolver
    rout,            \* what the last resolver call returned or raised
    lookup,          \* what the video platform answered to the resolver's lookup
    calls,           \* the calls to the video platform issued by the resolver
    llmKey,          \* OPENROUTER_API_KEY, read from the environment at import
    inItems,         \* the item list handed to ask_llm / _generate_local_answer
    llmReply,        \* what the answering service answered to the last request
    aout,            \* what the last ask_llm / _generate_local_answer call returned
    mwsEnv,          \* MWS_API_TOKEN, MWS_BASE_URL, MWS_CONTENT_TABLE_ID
    store,           \* the records of the content table, in the table's order
    cache,           \* _CACHE: (channel id, max_results) -> (time stored, items)
    now,             \* time.time(), in seconds
    cacheOp,         \* the last _cache_set / _cache_get call and what it returned
    lastPut,         \* history: for each key, the time and list of its last put
    lastFetch,       \* history: for each key, the last fetch that asked the platform
    proc,            \* the requests and calls being served, each where it waits
    overlap          \* history: two of them have been under way at the same time

qvars == <<question, qout>>
rvars == <<apiKey, defaultChannel, channel, rout, lookup, calls>>
avars == <<llmKey, inItems, llmReply, aout>>
svars == <<mwsEnv, store, cache, now>>
cvars == <<cacheOp, lastPut, lastFetch>>
pvars == <<proc, overlap>>

vars == <<question, qout, apiKey, defaultChannel, channel, rout, lookup, calls,
          llmKey, inItems, llmReply, aout,
          mwsEnv, store, cache, now,
          cacheOp, lastPut, lastFetch, proc, overlap>>

(***************************************************************************)
(* Python string primitives                                                *)
(***************************************************************************)

UpperChars ==
  <<"A","B","C","D","E","F","G","H","I","J","K","L","M","N","O","P","Q","R","S",
    "T","U","V","W","X","Y","Z","C_a","C_b","C_v","C_g","C_d","C_e","C_zh","C_z",
    "C_i","C_j","C_k","C_l","C_m","C_n","C_o","C_p","C_r","C_s","C_t","C_u","C_f",
    "C_h","C_c","C_ch","C_sh","C_sch","C_hard","C_y","C_soft","C_eh","C_yu",
    "C_ya","C_yo">>

LowerChars ==
  <<"a","b","c","d","e","f","g","h","i","j","k","l","m","n","o","p","q","r","s",
    "t","u","v","w","x","y","z","c_a","c_b","c_v","c_g","c_d","c_e","c_zh","c_z",
    "c_i","c_j","c_k","c_l","c_m","c_n","c_o","c_p","c_r","c_s","c_t","c_u","c_f",
    "c_h","c_c","c_ch","c_sh","c_sch","c_hard","c_y","c_soft","c_eh","c_yu",
    "c_ya","c_yo">>

\* str.lower() on one character
LowerChar(c) ==
    IF \E i \in DOMAIN UpperChars : UpperChars[i] = c
    THEN LowerChars[CHOOSE i \in DOMAIN UpperChars : UpperChars[i] = c]
    ELSE c

\* str.lower()
Lower(s) == [i \in 1..Len(s) |-> LowerChar(s[i])]

\* s[i:i+len(p)] == p   (i is 1-based)
MatchAt(s, p, i) ==
    /\ i + Len(p) - 1 <= Len(s)
    /\ \A k \in 1..Len(p) : s[i + k - 1] = p[k]

\* p in s
Contains(s, p) == \E i \in 1..(Len(s) - Len(p) + 1) : MatchAt(s, p, i)

\* s.startswith(p)
StartsWith(s, p) == MatchAt(s, p, 1)

\* the positions where p occurs in s
Occurrences(s, p) == {i \in 1..(Len(s) - Len(p) + 1) : MatchAt(s, p, i)}

Max(S) == CHOOSE x \in S : \A y \in S : y <= x
Min(S) == CHOOSE x \in S : \A y \in S : x <= y

\* s.split(p)[-1]: the text after the last occurrence of p, s when there is none
AfterLast(s, p) ==
    IF Occurrences(s, p) = {} THEN s
    ELSE SubSeq(s, Max(Occurrences(s, p)) + Len(p), Len(s))

\* s.split(p)[0]: the text before the first occurrence of p, s when there is none
BeforeFirst(s, p) ==
    IF Occurrences(s, p) = {} THEN s
    ELSE SubSeq(s, 1, Min(Occurrences(s, p)) - 1)

\* the characters str.isspace() holds of: the ones str.strip() removes
Whitespace ==
    {"\t", "\n", "u_000b", "\f", "\r", "u_001c", "u_001d", "u_001e", "u_001f", " ",
     "u_0085", "u_00a0", "u_1680", "u_2000", "u_2001", "u_2002", "u_2003",
     "u_2004", "u_2005", "u_2006", "u_2007", "u_2008", "u_2009", "u_200a",
     "u_2028", "u_2029", "u_202f", "u_205f", "u_3000"}

\* s.strip()
Strip(s) ==
    LET keep == {i \in 1..Len(s) : s[i] \notin Whitespace}
    IN  IF keep = {} THEN <<>> ELSE SubSeq(s, Min(keep), Max(keep))

\* the characters re's \d matches in a str and int() reads as digits: the
\* decimal digits of every script (Unicode category Nd), in code point order,
\* ten to a script from its zero to its nine; the first ten are "0" to "9"
Digits ==
 <<
    "0","1","2","3","4","5","6","7","8","9",
    "u_0660","u_0661","u_0662","u_0663","u_0664","u_0665","u_0666","u_0667","u_0668","u_0669",
    "u_06f0","u_06f1","u_06f2","u_06f3","u_06f4","u_06f5","u_06f6","u_06f7","u_06f8","u_06f9",
    "u_07c0","u_07c1","u_07c2","u_07c3","u_07c4","u_07c5","u_07c6","u_07c7","u_07c8","u_07c9",
    "u_0966","u_0967","u_0968","u_0969","u_096a","u_096b","u_096c","u_096d","u_096e","u_096f",
    "u_09e6","u_09e7","u_09e8","u_09e9","u_09ea","u_09eb","u_09ec","u_09ed","u_09ee","u_09ef",
    "u_0a66","u_0a67","u_0a68","u_0a69","u_0a6a","u_0a6b","u_0a6c","u_0a6d","u_0a6e","u_0a6f",
    "u_0ae6","u_0ae7","u_0ae8","u_0ae9","u_0aea","u_0aeb","u_0aec","u_0aed","u_0aee","u_0aef",
    "u_0b66","u_0b67","u_0b68","u_0b69","u_0b6a","u_0b6b","u_0b6c","u_0b6d","u_0b6e","u_0b6f",
    "u_0be6","u_0be7","u_0be8","u_0be9","u_0bea","u_0beb","u_0bec","u_0bed","u_0bee","u_0bef",
    "u_0c66","u_0c67","u_0c68","u_0c69","u_0c6a","u_0c6b","u_0c6c","u_0c6d","u_0c6e","u_0c6f",
    "u_0ce6","u_0ce7","u_0ce8","u_0ce9","u_0cea","u_0ceb","u_0cec","u_0ced","u_0cee","u_0cef",
    "u_0d66","u_0d67","u_0d68","u_0d69","u_0d6a","u_0d6b","u_0d6c","u_0d6d","u_0d6e","u_0d6f",
    "u_0de6","u_0de7","u_0de8","u_0de9","u_0dea","u_0deb","u_0dec","u_0ded","u_0dee","u_0def",
    "u_0e50","u_0e51","u_0e52","u_0e53","u_0e54","u_0e55","u_0e56","u_0e57","u_0e58","u_0e59",
    "u_0ed0","u_0ed1","u_0ed2","u_0ed3","u_0ed4","u_0ed5","u_0ed6","u_0ed7","u_0ed8","u_0ed9",
    "u_0f20","u_0f21","u_0f22","u_0f23","u_0f24","u_0f25","u_0f26","u_0f27","u_0f28","u_0f29",
    "u_1040","u_1041","u_1042","u_1043","u_1044","u_1045","u_1046","u_1047","u_1048","u_1049",
    "u_1090","u_1091","u_1092","u_1093","u_1094","u_1095","u_1096","u_1097","u_1098","u_1099",
    "u_17e0","u_17e1","u_17e2","u_17e3","u_17e4","u_17e5","u_17e6","u_17e7","u_17e8","u_17e9",
    "u_1810","u_1811","u_1812","u_1813","u_1814","u_1815","u_1816","u_1817","u_1818","u_1819",
    "u_1946","u_1947","u_1948","u_1949","u_194a","u_194b","u_194c","u_194d","u_194e","u_194f",
    "u_19d0","u_19d1","u_19d2","u_19d3","u_19d4","u_19d5","u_19d6","u_19d7","u_19d8","u_19d9",
    "u_1a80","u_1a81","u_1a82","u_1a83","u_1a84","u_1a85","u_1a86","u_1a87","u_1a88","u_1a89",
    "u_1a90","u_1a91","u_1a92","u_1a93","u_1a94","u_1a95","u_1a96","u_1a97","u_1a98","u_1a99",
    "u_1b50","u_1b51","u_1b52","u_1b53","u_1b54","u_1b55","u_1b56","u_1b57","u_1b58","u_1b59",
    "u_1bb0","u_1bb1","u_1bb2","u_1bb3","u_1bb4","u_1bb5","u_1bb6","u_1bb7","u_1bb8","u_1bb9",
    "u_1c40","u_1c41","u_1c42","u_1c43","u_1c44","u_1c45","u_1c46","u_1c47","u_1c48","u_1c49",
    "u_1c50","u_1c51","u_1c52","u_1c53","u_1c54","u_1c55","u_1c56","u_1c57","u_1c58","u_1c59",
    "u_a620","u_a621","u_a622","u_a623","u_a624","u_a625","u_a626","u_a627","u_a628","u_a629",
    "u_a8d0","u_a8d1","u_a8d2","u_a8d3","u_a8d4","u_a8d5","u_a8d6","u_a8d7","u_a8d8","u_a8d9",
    "u_a900","u_a901","u_a902","u_a903","u_a904","u_a905","u_a906","u_a907","u_a908","u_a909",
    "u_a9d0","u_a9d1","u_a9d2","u_a9d3","u_a9d4","u_a9d5","u_a9d6","u_a9d7","u_a9d8","u_a9d9",
    "u_a9f0","u_a9f1","u_a9f2","u_a9f3","u_a9f4","u_a9f5","u_a9f6","u_a9f7","u_a9f8","u_a9f9",
    "u_aa50","u_aa51","u_aa52","u_aa53","u_aa54","u_aa55","u_aa56","u_aa57","u_aa58","u_aa59",
    "u_abf0","u_abf1","u_abf2","u_abf3","u_abf4","u_abf5","u_abf6","u_abf7","u_abf8","u_abf9",
    "u_ff10","u_ff11","u_ff12","u_ff13","u_ff14","u_ff15","u_ff16","u_ff17","u_ff18","u_ff19",
    "u_104a0","u_104a1","u_104a2","u_104a3","u_104a4","u_104a5","u_104a6","u_104a7","u_104a8","u_104a9",
    "u_10d30","u_10d31","u_10d32","u_10d33","u_10d34","u_10d35","u_10d36","u_10d37","u_10d38","u_10d39",
    "u_11066","u_11067","u_11068","u_11069","u_1106a","u_1106b","u_1106c","u_1106d","u_1106e","u_1106f",
    "u_110f0","u_110f1","u_110f2","u_110f3","u_110f4","u_110f5","u_110f6","u_110f7","u_110f8","u_110f9",
    "u_11136","u_11137","u_11138","u_11139","u_1113a","u_1113b","u_1113c","u_1113d","u_1113e","u_1113f",
    "u_111d0","u_111d1","u_111d2","u_111d3","u_111d4","u_111d5","u_111d6","u_111d7","u_111d8","u_111d9",
    "u_112f0","u_112f1","u_112f2","u_112f3","u_112f4","u_112f5","u_112f6","u_112f7","u_112f8","u_112f9",
    "u_11450","u_11451","u_11452","u_11453","u_11454","u_11455","u_11456","u_11457","u_11458","u_11459",
    "u_114d0","u_114d1","u_114d2","u_114d3","u_114d4","u_114d5","u_114d6","u_114d7","u_114d8","u_114d9",
    "u_11650","u_11651","u_11652","u_11653","u_11654","u_11655","u_11656","u_11657","u_11658","u_11659",
    "u_116c0","u_116c1","u_116c2","u_116c3","u_116c4","u_116c5","u_116c6","u_116c7","u_116c8","u_116c9",
    "u_11730","u_11731","u_11732","u_11733","u_11734","u_11735","u_11736","u_11737","u_11738","u_11739",
    "u_118e0","u_118e1","u_118e2","u_118e3","u_118e4","u_118e5","u_118e6","u_118e7","u_118e8","u_118e9",
    "u_11950","u_11951","u_11952","u_11953","u_11954","u_11955","u_11956","u_11957","u_11958","u_11959",
    "u_11c50","u_11c51","u_11c52","u_11c53","u_11c54","u_11c55","u_11c56","u_11c57","u_11c58","u_11c59",
    "u_11d50","u_11d51","u_11d52","u_11d53","u_11d54","u_11d55","u_11d56","u_11d57","u_11d58","u_11d59",
    "u_11da0","u_11da1","u_11da2","u_11da3","u_11da4","u_11da5","u_11da6","u_11da7","u_11da8","u_11da9",
    "u_16a60","u_16a61","u_16a62","u_16a63","u_16a64","u_16a65","u_16a66","u_16a67","u_16a68","u_16a69",
    "u_16ac0","u_16ac1","u_16ac2","u_16ac3","u_16ac4","u_16ac5","u_16ac6","u_16ac7","u_16ac8","u_16ac9",
    "u_16b50","u_16b51","u_16b52","u_16b53","u_16b54","u_16b55","u_16b56","u_16b57","u_16b58","u_16b59",
    "u_1d7ce","u_1d7cf","u_1d7d0","u_1d7d1","u_1d7d2","u_1d7d3","u_1d7d4","u_1d7d5","u_1d7d6","u_1d7d7",
    "u_1d7d8","u_1d7d9","u_1d7da","u_1d7db","u_1d7dc","u_1d7dd","u_1d7de","u_1d7df","u_1d7e0","u_1d7e1",
    "u_1d7e2","u_1d7e3","u_1d7e4","u_1d7e5","u_1d7e6","u_1d7e7","u_1d7e8","u_1d7e9","u_1d7ea","u_1d7eb",
    "u_1d7ec","u_1d7ed","u_1d7ee","u_1d7ef","u_1d7f0","u_1d7f1","u_1d7f2","u_1d7f3","u_1d7f4","u_1d7f5",
    "u_1d7f6","u_1d7f7","u_1d7f8","u_1d7f9","u_1d7fa","u_1d7fb","u_1d7fc","u_1d7fd","u_1d7fe","u_1d7ff",
    "u_1e140","u_1e141","u_1e142","u_1e143","u_1e144","u_1e145","u_1e146","u_1e147","u_1e148","u_1e149",
    "u_1e2f0","u_1e2f1","u_1e2f2","u_1e2f3","u_1e2f4","u_1e2f5","u_1e2f6","u_1e2f7","u_1e2f8","u_1e2f9",
    "u_1e950","u_1e951","u_1e952","u_1e953","u_1e954","u_1e955","u_1e956","u_1e957","u_1e958","u_1e959",
    "u_1fbf0","u_1fbf1","u_1fbf2","u_1fbf3","u_1fbf4","u_1fbf5","u_1fbf6","u_1fbf7","u_1fbf8","u_1fbf9"
 >>

DecimalDigits == {Digits[d] : d \in DOMAIN Digits}

IsDigit(c) == c \in DecimalDigits

\* the value int() gives a digit
DigitValue(c) == ((CHOOSE d \in DOMAIN Digits : Digits[d] = c) - 1) % 10

\* int(run) for a run of decimal digits
RECURSIVE ParseInt(_)
ParseInt(run) ==
    IF run = <<>> THEN 0
    ELSE 10 * ParseInt(SubSeq(run, 1, Len(run) - 1)) + DigitValue(run[Len(run)])

\* sys.int_info.default_max_str_digits: int() converts a literal of at most
\* this many digits and raises ValueError on a longer one
IntMaxStrDigits == 4300

\* int(run) raises ValueError for a run of decimal digits
IntRefuses(run) == Len(run) > IntMaxStrDigits

\* a run of digits without its leading zeros
Significant(run) ==
    LET nz == {i \in DOMAIN run : DigitValue(run[i]) # 0}
    IN  IF nz = {} THEN <<>> ELSE SubSeq(run, Min(nz), Len(run))

\* min(int(run), cap) for a run of digits of any length and a cap below 10^9
ParseIntUpTo(run, cap) ==
    IF Len(Significant(run)) > 9 THEN cap
    ELSE IF ParseInt(Significant(run)) > cap THEN cap
    ELSE ParseInt(Significant(run))

\* the blanks int() skips round a number: str.strip()'s but the four
\* separators U+001C..U+001F
IntWhitespace == Whitespace \ {"u_001c", "u_001d", "u_001e", "u_001f"}

\* the text int() is left with once the blanks round it are skipped
IntStrip(s) ==
    LET keep == {i \in 1..Len(s) : s[i] \notin IntWhitespace}
    IN  IF keep = {} THEN <<>> ELSE SubSeq(s, Min(keep), Max(keep))

\* the digits of an integer literal: digits, single underscores between them
IsIntBody(b) ==
    /\ b # <<>>
    /\ \A i \in DOMAIN b : IsDigit(b[i]) \/ b[i] = "_"
    /\ IsDigit(b[1]) /\ IsDigit(b[Len(b)])
    /\ \A i \in 1..(Len(b) - 1) : ~(b[i] = "_" /\ b[i + 1] = "_")

\* int(s) for a str s: ok is FALSE where int() raises ValueError
IntOfText(s) ==
    LET t      == IntStrip(s)
        signed == t # <<>> /\ t[1] \in {"+", "-"}
        body   == IF signed THEN Tail(t) ELSE t
        value  == ParseInt(SelectSeq(body, IsDigit))
    IN  IF IsIntBody(body) /\ ~IntRefuses(SelectSeq(body, IsDigit))
        THEN [ok |-> TRUE, v |-> IF signed /\ t[1] = "-" THEN -value ELSE value]
        ELSE [ok |-> FALSE, v |-> 0]

\* re.findall(r"\d+", s): the maximal runs of digits, left to right
RECURSIVE FindAllFrom(_, _)
FindAllFrom(s, i) ==
    IF i > Len(s) THEN <<>>
    ELSE IF ~IsDigit(s[i]) THEN FindAllFrom(s, i + 1)
    ELSE LET stops == {j \in i..Len(s) : ~IsDigit(s[j])}
             end   == IF stops = {} THEN Len(s) ELSE Min(stops) - 1
         IN  <<SubSeq(s, i, end)>> \o FindAllFrom(s, end + 1)

FindAllNumbers(s) == FindAllFrom(s, 1)

\* the concatenation of a sequence of texts
RECURSIVE Flatten(_)
Flatten(ts) == IF ts = <<>> THEN <<>> ELSE Head(ts) \o Flatten(Tail(ts))

\* the sequences over S of length at most n
SeqsUpTo(S, n) == UNION {[1..k -> S] : k \in 0..n}

(***************************************************************************)
(* services/llm_client.py: the question classifier                         *)
(***************************************************************************)

KwEngagementRu == <<"c_v","c_o","c_v","c_l","c_e","c_ch">>
KwEngagementEn == <<"e","n","g","a","g","e","m","e","n","t">>
KwLike         == <<"c_l","c_a","c_j","c_k">>
KwReaction     == <<"c_r","c_e","c_a","c_k","c_c">>
KwComment      == <<"c_k","c_o","c_m","c_m","c_e","c_n","c_t">>
KwWorst        == <<"c_h","c_u","c_d","c_sh">>
KwBad          == <<"c_p","c_l","c_o","c_h">>
KwLow          == <<"c_n","c_i","c_z","c_k">>
KwWhatToDo     == <<"c_ch","c_t","c_o"," ","c_d","c_e","c_l","c_a","c_t","c_soft">>
KwHowToImprove ==
    <<"c_k","c_a","c_k"," ","c_u","c_l","c_u","c_ch","c_sh","c_i","c_t","c_soft">>
KwRecommend    == <<"c_r","c_e","c_k","c_o","c_m","c_e","c_n","c_d","c_a","c_c">>
KwAdvice       == <<"c_s","c_o","c_v","c_e","c_t">>
KwPopular      == <<"c_p","c_o","c_p","c_u","c_l","c_ya","c_r">>
KwMostViews    ==
    <<"c_b","c_o","c_l","c_soft","c_sh","c_e"," ","c_v","c_s","c_e","c_g","c_o"," ",
      "c_p","c_r","c_o","c_s","c_m","c_o","c_t","c_r","c_o","c_v">>
KwMostPopular  ==
    <<"c_s","c_a","c_m","c_o","c_e"," ","c_p","c_o","c_p","c_u","c_l","c_ya","c_r",
      "c_n","c_o","c_e">>

\* words_map of _detect_top_n, in the dictionary's insertion order
TopNWords ==
    << [word |-> <<"c_t","c_r","c_i">>,           n |-> 3],
       [word |-> <<"c_t","c_o","c_p","-","3">>,   n |-> 3],
       [word |-> <<"c_t","c_o","c_p"," ","3">>,   n |-> 3],
       [word |-> <<"c_p","c_ya","c_t","c_soft">>, n |-> 5],
       [word |-> <<"c_t","c_o","c_p","-","5">>,   n |-> 5],
       [word |-> <<"c_t","c_o","c_p"," ","5">>,   n |-> 5] >>

\* words_map of extract_limit_from_question, in insertion order
LimitWords ==
    << [word |-> <<"c_p","c_ya","c_t","c_i">>,                      n |-> 5],
       [word |-> <<"c_p","c_ya","c_t","c_e","c_r","c_y","c_h">>,    n |-> 5],
       [word |-> <<"c_p","c_ya","c_t","c_e","c_r","c_k","c_i">>,    n |-> 5],
       [word |-> <<"c_d","c_e","c_s","c_ya","c_t","c_i">>,          n |-> 10],
       [word |-> <<"c_d","c_e","c_s","c_ya","c_t","c_soft">>,       n |-> 10],
       [word |-> <<"c_d","c_e","c_s","c_ya","c_t","c_k","c_a">>,    n |-> 10] >>

\* for word, n in words_map.items(): if word in q: return n  ... return default
FirstWordMatch(q, words, default) ==
    LET hits == {i \in DOMAIN words : Contains(q, words[i].word)}
    IN  IF hits = {} THEN default ELSE words[Min(hits)].n

TopNLow     == 1
TopNHigh    == 10
TopNDefault == 3

\* mutant: an out-of-range literal is clamped instead of being dropped
DetectTopNClamping(text, default) ==
    LET q    == Lower(text)
        nums == FindAllNumbers(q)
        n    == ParseIntUpTo(nums[Len(nums)], TopNHigh + 1)
    IN  IF nums # <<>> /\ ~IntRefuses(nums[Len(nums)])
        THEN (IF n < TopNLow THEN TopNLow ELSE IF n > TopNHigh THEN TopNHigh ELSE n)
        ELSE FirstWordMatch(q, TopNWords, default)

\* _detect_top_n(question, default): the last literal when int() converts it
\* and it lies in 1..10 (n is the literal, or 11 for a greater one), else the
\* words and the default
DetectTopN(text, default) ==
    LET q    == Lower(text)
        nums == FindAllNumbers(q)
        n    == ParseIntUpTo(nums[Len(nums)], TopNHigh + 1)
    IN  IF nums # <<>> /\ ~IntRefuses(nums[Len(nums)]) /\ TopNLow <= n /\ n <= TopNHigh
        THEN n
        ELSE FirstWordMatch(q, TopNWords, default)

\* mutant: the engagement keywords are tested before the popularity keywords
ClassifyQuestionEngagementFirst(text) ==
    LET q == Lower(text)
    IN  [metric    |-> IF \/ Contains(q, KwEngagementRu) \/ Contains(q, KwEngagementEn)
                          \/ Contains(q, KwLike) \/ Contains(q, KwReaction)
                          \/ Contains(q, KwComment)
                       THEN "engagement" ELSE "views",
         worst     |-> Contains(q, KwWorst) \/ Contains(q, KwBad) \/ Contains(q, KwLow),
         recommend |-> \/ Contains(q, KwWhatToDo) \/ Contains(q, KwHowToImprove)
                       \/ Contains(q, KwRecommend) \/ Contains(q, KwAdvice)]

\* _classify_question(question)
ClassifyQuestion(text) ==
    LET q             == Lower(text)
        by_engagement == Contains(q, KwEngagementRu) \/ Contains(q, KwEngagementEn)
        by_likes      == Contains(q, KwLike) \/ Contains(q, KwReaction)
        by_comments   == Contains(q, KwComment)
        worst         == Contains(q, KwWorst) \/ Contains(q, KwBad) \/ Contains(q, KwLow)
        recommend     == \/ Contains(q, KwWhatToDo)
                         \/ Contains(q, KwHowToImprove)
                         \/ Contains(q, KwRecommend)
                         \/ Contains(q, KwAdvice)
        metric        ==
            IF \/ Contains(q, KwPopular)
               \/ Contains(q, KwMostViews)
               \/ Contains(q, KwMostPopular)
            THEN "views"
            ELSE IF by_engagement \/ by_likes \/ by_comments
            THEN "engagement"
            ELSE "views"
    IN  [metric |-> metric, worst |-> worst, recommend |-> recommend]

(***************************************************************************)
(* main.py: how many recent videos a question asks to analyse              *)
(***************************************************************************)

LimitLow     == 3
LimitHigh    == 20
LimitDefault == 5

\* extract_limit_from_question looking at the word table before the literals
ExtractLimitFromQuestionWordsFirst(text, default) ==
    LET q    == Lower(text)
        nums == FindAllNumbers(q)
        hi   == ParseIntUpTo(nums[Len(nums)], LimitHigh)
        none == 0
        word == FirstWordMatch(q, LimitWords, none)
    IN  IF word # none THEN word
        ELSE IF nums # <<>> /\ ~IntRefuses(nums[Len(nums)])
        THEN (IF hi > LimitLow THEN hi ELSE LimitLow)
        ELSE default

\* extract_limit_from_question(question, default): max(3, min(20, n)) of the
\* last literal; when int() raises ValueError on it, the words and the default
ExtractLimitFromQuestion(text, default) ==
    LET q    == Lower(text)
        nums == FindAllNumbers(q)
        hi   == ParseIntUpTo(nums[Len(nums)], LimitHigh)
    IN  IF nums # <<>> /\ ~IntRefuses(nums[Len(nums)])
        THEN (IF hi > LimitLow THEN hi ELSE LimitLow)
        ELSE FirstWordMatch(q, LimitWords, default)

(***************************************************************************)
(* Python numbers                                                          *)
(*                                                                         *)
(* A float is an IEEE-754 double.  The model keeps its exact value         *)
(* m * 2^e as [neg, m, e]: m is a natural number of at most 53 bits, odd   *)
(* unless the float is zero, held as its base-2^15 digits, the least       *)
(* significant first (<<>> is 0).  Every operation rounds the exact result *)
(* to 53 bits, a tie going to the even neighbour, as the hardware does.    *)
(* The magnitudes the service computes are far from the ends of the        *)
(* exponent range, which the model leaves out.                             *)
(***************************************************************************)

\* the natural number of the digits, leading zero digits dropped
RECURSIVE BigNorm(_)
BigNorm(a) ==
    IF a = <<>> THEN <<>>
    ELSE IF a[Len(a)] = 0 THEN BigNorm(SubSeq(a, 1, Len(a) - 1))
    ELSE a

\* the digits of the natural number n
RECURSIVE BigOfInt(_)
BigOfInt(n) == IF n = 0 THEN <<>> ELSE <<n % 32768>> \o BigOfInt(n \div 32768)

\* the natural number as an integer (when it is one the checker can hold)
RECURSIVE BigToInt(_)
BigToInt(a) == IF a = <<>> THEN 0 ELSE a[1] + 32768 * BigToInt(Tail(a))

\* the digit of a sequence of digits that may have run out
DigitOr0(a) == IF a = <<>> THEN 0 ELSE a[1]
DigitsAfter(a) == IF a = <<>> THEN <<>> ELSE Tail(a)

RECURSIVE BigAddCarry(_, _, _)
BigAddCarry(a, b, carry) ==
    IF a = <<>> /\ b = <<>> THEN (IF carry = 0 THEN <<>> ELSE <<carry>>)
    ELSE <<(DigitOr0(a) + DigitOr0(b) + carry) % 32768>>
             \o BigAddCarry(DigitsAfter(a), DigitsAfter(b),
                            (DigitOr0(a) + DigitOr0(b) + carry) \div 32768)

\* a + b
BigAdd(a, b) == BigAddCarry(a, b, 0)

RECURSIVE BigSubBorrow(_, _, _)
BigSubBorrow(a, b, borrow) ==
    IF a = <<>> THEN <<>>
    ELSE <<(a[1] - DigitOr0(b) - borrow) % 32768>>
             \o BigSubBorrow(Tail(a), DigitsAfter(b),
                             IF a[1] - DigitOr0(b) - borrow < 0 THEN 1 ELSE 0)

\* a - b, for a >= b
BigSub(a, b) == BigNorm(BigSubBorrow(a, b, 0))

\* -1, 0 or 1 as a < b, a = b or a > b
RECURSIVE BigCmp(_, _)
BigCmp(a, b) ==
    IF Len(a) # Len(b) THEN (IF Len(a) < Len(b) THEN -1 ELSE 1)
    ELSE IF a = <<>> THEN 0
    ELSE IF a[Len(a)] # b[Len(b)] THEN (IF a[Len(a)] < b[Len(b)] THEN -1 ELSE 1)
    ELSE BigCmp(SubSeq(a, 1, Len(a) - 1), SubSeq(b, 1, Len(b) - 1))

RECURSIVE BigMulCarry(_, _, _)
BigMulCarry(a, k, carry) ==
    IF a = <<>> THEN (IF carry = 0 THEN <<>> ELSE <<carry>>)
    ELSE <<(a[1] * k + carry) % 32768>>
             \o BigMulCarry(Tail(a), k, (a[1] * k + carry) \div 32768)

\* a * k, for 0 < k <= 2^15
BigMulSmall(a, k) == BigMulCarry(a, k, 0)

\* a quotient and its remainder, the quotient's leading zero digits dropped
BigQuotient(d) == [q |-> BigNorm(d.q), r |-> d.r]

\* one more digit a1 below the dividend whose division by k gave hi
BigDivSmallStep(a1, k, hi) ==
    [q |-> <<(hi.r * 32768 + a1) \div k>> \o hi.q, r |-> (hi.r * 32768 + a1) % k]

RECURSIVE BigDivSmallDigits(_, _)
BigDivSmallDigits(a, k) ==
    IF a = <<>> THEN [q |-> <<>>, r |-> 0]
    ELSE BigDivSmallStep(a[1], k, BigDivSmallDigits(Tail(a), k))

\* the quotient q and the remainder r (an integer) of a by k, for 0 < k <= 2^15
BigDivSmall(a, k) == BigQuotient(BigDivSmallDigits(a, k))

\* a * 2^n
BigShiftLeft(a, n) ==
    IF a = <<>> THEN <<>>
    ELSE [i \in 1..(n \div 15) |-> 0] \o BigMulSmall(a, 2 ^ (n % 15))

\* a // 2^n
BigShiftRight(a, n) ==
    IF (n \div 15) >= Len(a) THEN <<>>
    ELSE BigDivSmall(SubSeq(a, (n \div 15) + 1, Len(a)), 2 ^ (n % 15)).q

\* the number of bits of a digit
RECURSIVE DigitBits(_)
DigitBits(x) == IF x = 0 THEN 0 ELSE 1 + DigitBits(x \div 2)

\* int.bit_length()
BigBitLength(a) ==
    IF a = <<>> THEN 0 ELSE 15 * (Len(a) - 1) + DigitBits(a[Len(a)])

\* the largest digit k + d with b * (k + d) <= r, d < 2^(bit + 1)
RECURSIVE BigQuotientDigit(_, _, _, _)
BigQuotientDigit(r, b, k, bit) ==
    IF bit < 0 THEN k
    ELSE IF BigCmp(BigMulSmall(b, k + 2 ^ bit), r) <= 0
    THEN BigQuotientDigit(r, b, k + 2 ^ bit, bit - 1)
    ELSE BigQuotientDigit(r, b, k, bit - 1)

\* the digit k of the quotient put before q, and what is left of cur
BigDivModPut(cur, b, q, k) ==
    [q |-> <<k>> \o q, r |-> IF k = 0 THEN cur ELSE BigSub(cur, BigMulSmall(b, k))]

BigDivModDigit(cur, b, q) == BigDivModPut(cur, b, q, BigQuotientDigit(cur, b, 0, 14))

\* one more digit a1 below the dividend whose division by b gave hi
BigDivModStep(a1, b, hi) == BigDivModDigit(BigNorm(<<a1>> \o hi.r), b, hi.q)

\* long division of a by b > 0, a digit of the quotient at a time
RECURSIVE BigDivModDigits(_, _)
BigDivModDigits(a, b) ==
    IF a = <<>> THEN [q |-> <<>>, r |-> <<>>]
    ELSE BigDivModStep(a[1], b, BigDivModDigits(Tail(a), b))

BigExactSmall(d) == [q |-> BigNorm(d.q), exact |-> d.r = 0]
BigExactLong(d)  == [q |-> BigNorm(d.q), exact |-> d.r = <<>>]

\* the quotient q of a by b > 0, and whether the division leaves no remainder
BigDivMod(a, b) ==
    IF Len(b) = 1 THEN BigExactSmall(BigDivSmallDigits(a, b[1]))
    ELSE BigExactLong(BigDivModDigits(a, b))

\* the last decimal digit of a quotient-and-remainder by ten after the others
RECURSIVE BigDecimal(_)
BigDecimalPut(d) ==
    (IF d.q = <<>> THEN <<>> ELSE BigDecimal(d.q)) \o <<Digits[d.r + 1]>>

\* str(a): the decimal digits of a, "0" for zero
BigDecimal(a) == BigDecimalPut(BigDivSmall(a, 10))

\* q or q + 1 as the remainder compares with one half (c), a tie going to the
\* even one unless more lies beyond the remainder (sticky)
BigRoundTie(q, sticky, c) ==
    IF c > 0 \/ (c = 0 /\ (sticky \/ (q # <<>> /\ q[1] % 2 = 1)))
    THEN BigAdd(q, <<1>>) ELSE q

BigRoundQuotient(m, s, sticky, q) ==
    BigRoundTie(q, sticky,
                BigCmp(BigSub(m, BigShiftLeft(q, s)), BigShiftLeft(<<1>>, s - 1)))

\* the integer nearest to m / 2^s, s > 0
BigRoundShift(m, s, sticky) == BigRoundQuotient(m, s, sticky, BigShiftRight(m, s))

\* 0.0
FloatZero == [neg |-> FALSE, m |-> <<>>, e |-> 0]

\* the number of factors of two of a digit x > 0
RECURSIVE DigitTwos(_)
DigitTwos(x) == IF x % 2 = 1 THEN 0 ELSE 1 + DigitTwos(x \div 2)

\* m * 2^e with the factors of two of m moved into e
RECURSIVE FloatOdd(_, _, _)
FloatOdd(neg, m, e) ==
    IF m = <<>> THEN FloatZero
    ELSE IF m[1] = 0 THEN FloatOdd(neg, Tail(m), e + 15)
    ELSE [neg |-> neg, m |-> BigShiftRight(m, DigitTwos(m[1])),
          e |-> e + DigitTwos(m[1])]

\* m * 2^e with the s lowest bits of m rounded away
FloatRoundBy(neg, m, e, sticky, s) ==
    IF s <= 0 THEN FloatOdd(neg, m, e)
    ELSE FloatOdd(neg, BigRoundShift(m, s, sticky), e + s)

\* the double nearest to m * 2^e, or to a little more than it when sticky
\* (then m has 55 bits or more)
FloatRound(neg, m, e, sticky) ==
    FloatRoundBy(neg, m, e, sticky, BigBitLength(m) - 53)

FloatOfQuotient(neg, e, x) == FloatRound(neg, x.q, e, ~x.exact)

FloatOfShifted(neg, n, d, e, k) ==
    FloatOfQuotient(neg, e - k, BigDivMod(BigShiftLeft(n, k), d))

\* the double nearest to n * 2^e / d for natural numbers n, d > 0: the
\* quotient is taken to 55 bits or more before it is rounded
FloatOfBigRatio(neg, n, d, e) ==
    FloatOfShifted(neg, n, d, e, 55 + BigBitLength(d) - BigBitLength(n))

\* a / b of two ints, b > 0
FloatOfRatio(a, b) ==
    IF a = 0 THEN FloatZero
    ELSE FloatOfBigRatio(a < 0, BigOfInt(IF a < 0 THEN -a ELSE a), BigOfInt(b), 0)

\* x / n for a float x and an int n > 0
FloatDivInt(x, n) ==
    IF x.m = <<>> THEN FloatZero ELSE FloatOfBigRatio(x.neg, x.m, BigOfInt(n), x.e)

LowerExponent(x, y) == IF x.e < y.e THEN x.e ELSE y.e

\* -1, 0 or 1 as |x| < |y|, |x| = |y| or |x| > |y|
FloatCmpAbs(x, y) ==
    BigCmp(BigShiftLeft(x.m, x.e - LowerExponent(x, y)),
           BigShiftLeft(y.m, y.e - LowerExponent(x, y)))

\* x < y
FloatLess(x, y) ==
    IF x.neg # y.neg THEN x.neg
    ELSE FloatCmpAbs(x, y) = (IF x.neg THEN 1 ELSE -1)

\* a * 2^e with the sign xneg plus b * 2^e with the sign yneg, c comparing a, b
FloatAddSigned(xneg, a, yneg, b, e, c) ==
    FloatRound(IF c >= 0 THEN xneg ELSE yneg,
               IF xneg = yneg THEN BigAdd(a, b)
               ELSE IF c >= 0 THEN BigSub(a, b) ELSE BigSub(b, a),
               e, FALSE)

FloatAddAligned(xneg, a, yneg, b, e) ==
    FloatAddSigned(xneg, a, yneg, b, e, BigCmp(a, b))

\* x + y
FloatAdd(x, y) ==
    IF x.m = <<>> THEN y
    ELSE IF y.m = <<>> THEN x
    ELSE FloatAddAligned(x.neg, BigShiftLeft(x.m, x.e - LowerExponent(x, y)),
                         y.neg, BigShiftLeft(y.m, y.e - LowerExponent(x, y)),
                         LowerExponent(x, y))

\* int(x): the integer part, towards zero
FloatToInt(x) ==
    (IF x.neg THEN -1 ELSE 1)
        * BigToInt(IF x.e >= 0 THEN BigShiftLeft(x.m, x.e)
                   ELSE BigShiftRight(x.m, -x.e))

\* |x| in thousandths as f"{x:.3f}" rounds it: the exact value of the double to
\* the nearest thousandth, a tie going to the even one
Thousandths(x) ==
    IF x.e >= 0 THEN BigShiftLeft(BigMulSmall(x.m, 1000), x.e)
    ELSE BigRoundShift(BigMulSmall(x.m, 1000), -x.e, FALSE)

\* the text of t.q thousands and t.r thousandths
FormatThousandths(t) ==
    BigDecimal(t.q) \o <<".", Digits[(t.r \div 100) + 1],
                         Digits[((t.r \div 10) % 10) + 1], Digits[(t.r % 10) + 1]>>

\* f"{x:.3f}": the text of the float x with three decimals, "-0.000" for a
\* negative x that rounds to nought
FormatRate(x) ==
    (IF x.neg THEN <<"-">> ELSE <<>>)
        \o FormatThousandths(BigDivSmall(Thousandths(x), 1000))

(***************************************************************************)
(* services/llm_client.py: normalisation, ranking and the local answer     *)
(*                                                                         *)
(* A numeric field of an item dict is [t |-> "int", v |-> n] for the       *)
(* integer n, [t |-> "none"] for None or a missing key, [t |-> "empty"]    *)
(* for the empty text and [t |-> "text"] for a non-empty text int()        *)
(* rejects.  An engagement rate is a float.                                *)
(***************************************************************************)

IntV(n) == [t |-> "int",  v |-> n]
NoneV   == [t |-> "none", v |-> 0]
TextV   == [t |-> "text", v |-> 0]
EmptyTextV == [t |-> "empty", v |-> 0]

\* int(x or 0), 0 when int() raises
ToInt(x) == IF x.t = "int" THEN x.v ELSE 0

\* (likes + comments) / views if views > 0 else 0.0
EngagementRate(views, likes, comments) ==
    IF views > 0 THEN FloatOfRatio(likes + comments, views) ELSE FloatZero

\* the dict _normalize_items builds of one item
NormalizeItem(it) ==
    [platform        |-> it.platform,
     title           |-> it.title,
     url             |-> it.url,
     views           |-> IntV(ToInt(it.views)),
     likes           |-> IntV(ToInt(it.likes)),
     comments_count  |-> IntV(ToInt(it.comments_count)),
     engagement_rate |-> EngagementRate(ToInt(it.views), ToInt(it.likes),
                                        ToInt(it.comments_count))]

\* _normalize_items(items): the dicts of the items, one appended after another
RECURSIVE NormalizeItems(_)
NormalizeItems(items) ==
    IF items = <<>> THEN <<>>
    ELSE Append(NormalizeItems(SubSeq(items, 1, Len(items) - 1)),
                NormalizeItem(items[Len(items)]))

\* a < b for two rates
RateLess(a, b) == FloatLess(a, b)

\* key(x) < key(y) for the sort key of _sort_items
KeyLess(x, y, metric) ==
    IF metric = "engagement"
    THEN RateLess(x.engagement_rate, y.engagement_rate)
    ELSE x.views.v < y.views.v

\* sorted(normalized, key=..., reverse=not worst): a stable sort; with reverse
\* the items of equal key keep their order too
RECURSIVE InsertSorted(_, _, _, _)
InsertSorted(sorted, x, metric, worst) ==
    IF sorted = <<>> THEN <<x>>
    ELSE LET last == sorted[Len(sorted)]
             xGoesBefore == IF worst THEN KeyLess(x, last, metric)
                                     ELSE KeyLess(last, x, metric)
         IN  IF xGoesBefore
             THEN InsertSorted(SubSeq(sorted, 1, Len(sorted) - 1), x, metric, worst)
                      \o <<last>>
             ELSE sorted \o <<x>>

RECURSIVE SortPrefix(_, _, _, _)
SortPrefix(items, k, metric, worst) ==
    IF k = 0 THEN <<>>
    ELSE InsertSorted(SortPrefix(items, k - 1, metric, worst), items[k], metric, worst)

\* _sort_items sorting ascending and turning the list round for the best first
SortItemsTurnedRound(normalized, metric, worst) ==
    LET asc == SortPrefix(normalized, Len(normalized), metric, TRUE)
    IN  IF worst THEN asc ELSE [i \in 1..Len(asc) |-> asc[Len(asc) + 1 - i]]

\* _sort_items(normalized, metric, worst)
SortItems(normalized, metric, worst) ==
    SortPrefix(normalized, Len(normalized), metric, worst)

RECURSIVE SumViews(_)
SumViews(items) ==
    IF items = <<>> THEN 0 ELSE Head(items).views.v + SumViews(Tail(items))

\* sum(it["engagement_rate"] for it in normalized): the rates added one by
\* one from the left, each sum rounded
RECURSIVE SumRates(_)
SumRates(items) ==
    IF items = <<>> THEN FloatZero
    ELSE FloatAdd(SumRates(SubSeq(items, 1, Len(items) - 1)),
                  items[Len(items)].engagement_rate)

\* _summary_stats(normalized): the mean views and the mean rate, two floats
SummaryStats(normalized) ==
    IF normalized = <<>> THEN [avg_views |-> FloatZero, avg_eng |-> FloatZero]
    ELSE [avg_views |-> FloatOfRatio(SumViews(normalized), Len(normalized)),
          avg_eng   |-> FloatDivInt(SumRates(normalized), Len(normalized))]

\* max(normalized, key=...): the first item no other item exceeds
FirstMax(items, metric) ==
    items[Min({i \in DOMAIN items :
                 \A j \in DOMAIN items : ~KeyLess(items[i], items[j], metric)})]

\* the texts ask_llm can return, by their parts
NoDataAnswer ==
    [kind |-> "no_data", content |-> "", count |-> 0, direction |-> "", metric |-> "",
     n_all |-> 0, entries |-> <<>>, avg_views |-> 0, avg_eng |-> <<>>,
     best_by_eng |-> "", best_by_views |-> ""]

LlmAnswer(text) == [NoDataAnswer EXCEPT !.kind = "llm", !.content = text]

\* sorted_items[:top_n]
TopList(sorted_items, top_n) ==
    SubSeq(sorted_items, 1,
           IF top_n < Len(sorted_items) THEN top_n ELSE Len(sorted_items))

\* the numbered entry the local answer prints of one item
AnswerEntry(it) ==
    [title    |-> it.title,
     views    |-> it.views.v,
     likes    |-> it.likes.v,
     comments |-> it.comments_count.v,
     rate     |-> FormatRate(it.engagement_rate),
     url      |-> it.url]

\* the text _generate_local_answer builds, by its parts
LocalAnswer(normalized, q_info, top_list, stats) ==
    [kind          |-> "local",
     content       |-> "",
     count         |-> Len(top_list),
     direction     |-> IF q_info.worst THEN "worst" ELSE "best",
     metric        |-> q_info.metric,
     n_all         |-> Len(normalized),
     entries       |-> [i \in 1..Len(top_list) |-> AnswerEntry(top_list[i])],
     avg_views     |-> FloatToInt(stats.avg_views),
     avg_eng       |-> FormatRate(stats.avg_eng),
     best_by_eng   |-> FirstMax(normalized, "engagement").title,
     best_by_views |-> FirstMax(normalized, "views").title]

\* the local answer of the normalized items to a classified question
RankedAnswer(normalized, q_info, top_n) ==
    LocalAnswer(normalized, q_info,
                TopList(SortItems(normalized, q_info.metric, q_info.worst), top_n),
                SummaryStats(normalized))

\* _generate_local_answer(question, items)
GenerateLocalAnswer(text, items) ==
    IF items = <<>> THEN NoDataAnswer
    ELSE RankedAnswer(NormalizeItems(items), ClassifyQuestion(text),
                      DetectTopN(text, TopNDefault))

(***************************************************************************)
(* services/youtube_client.py: the channel reference resolver              *)
(***************************************************************************)

\* Python's None, for an optional text
None == <<"<None>">>

\* bool(x) of an optional text: None and "" are false
Truthy(x) == x # None /\ x # <<>>

Returned(v)      == [kind |-> "return", type |-> "",   msg |-> "",  value |-> v]
Raised(ty, why)  == [kind |-> "raise",  type |-> ty,   msg |-> why, value |-> <<>>]

StrYoutuBe        == <<"y","o","u","t","u",".","b","e","/">>
StrYoutubeWatch   == <<"y","o","u","t","u","b","e",".","c","o","m","/","w","a","t","c","h">>
StrVEquals        == <<"v","=">>
StrYoutubeChannel ==
    <<"y","o","u","t","u","b","e",".","c","o","m","/","c","h","a","n","n","e","l","/">>
StrYoutubeAt      == <<"y","o","u","t","u","b","e",".","c","o","m","/","@">>
StrHttp           == <<"h","t","t","p",":","/","/">>
StrHttps          == <<"h","t","t","p","s",":","/","/">>
StrUC             == <<"U","C">>
StrAt             == <<"@">>

ChannelIdMinLen == 20

\* mutant: the channel path is looked for before the video patterns
ExtractIdsFromUrlChannelFirst(raw) ==
    LET s      == Strip(raw)
        result == [channel_id |-> None, handle |-> None, video_id |-> None]
    IN  IF Contains(s, StrYoutubeChannel)
        THEN [result EXCEPT !.channel_id =
                BeforeFirst(BeforeFirst(BeforeFirst(
                    AfterLast(s, StrYoutubeChannel), <<"/">>), <<"?">>), <<"&">>)]
        ELSE IF Contains(s, StrYoutuBe)
        THEN [result EXCEPT !.video_id =
                BeforeFirst(BeforeFirst(AfterLast(s, StrYoutuBe), <<"?">>), <<"&">>)]
        ELSE IF Contains(s, StrYoutubeWatch) /\ Contains(s, StrVEquals)
        THEN [result EXCEPT !.video_id =
                BeforeFirst(BeforeFirst(AfterLast(s, StrVEquals), <<"&">>), <<"?">>)]
        ELSE IF Contains(s, StrYoutubeAt)
        THEN [result EXCEPT !.handle = StrAt \o
                BeforeFirst(BeforeFirst(BeforeFirst(
                    AfterLast(s, StrYoutubeAt), <<"/">>), <<"?">>), <<"&">>)]
        ELSE result

\* _extract_ids_from_url(raw)
ExtractIdsFromUrl(raw) ==
    LET s      == Strip(raw)
        result == [channel_id |-> None, handle |-> None, video_id |-> None]
    IN  IF Contains(s, StrYoutuBe)
        THEN [result EXCEPT !.video_id =
                BeforeFirst(BeforeFirst(AfterLast(s, StrYoutuBe), <<"?">>), <<"&">>)]
        ELSE IF Contains(s, StrYoutubeWatch) /\ Contains(s, StrVEquals)
        THEN [result EXCEPT !.video_id =
                BeforeFirst(BeforeFirst(AfterLast(s, StrVEquals), <<"&">>), <<"?">>)]
        ELSE IF Contains(s, StrYoutubeChannel)
        THEN [result EXCEPT !.channel_id =
                BeforeFirst(BeforeFirst(BeforeFirst(
                    AfterLast(s, StrYoutubeChannel), <<"/">>), <<"?">>), <<"&">>)]
        ELSE IF Contains(s, StrYoutubeAt)
        THEN [result EXCEPT !.handle = StrAt \o
                BeforeFirst(BeforeFirst(BeforeFirst(
                    AfterLast(s, StrYoutubeAt), <<"/">>), <<"?">>), <<"&">>)]
        ELSE result

(***************************************************************************)
(* What the video platform answers to one lookup call:                     *)
(*   exception   requests.get raises (no connection, ...)                  *)
(*   not_json    the body is not JSON: resp.json() raises ValueError       *)
(*   http_error  a JSON body with a status other than 200                  *)
(*   empty       200 with no items                                         *)
(*   malformed   200 with one item that lacks the expected keys            *)
(*   found       200 with one item naming channel id                       *)
(***************************************************************************)
FoundChannelId == <<"U","C","f","o","u","n","d">>

LookupOutcomes ==
    { [kind |-> k, id |-> <<>>] :
        k \in {"exception", "not_json", "http_error", "empty", "malformed"} }
    \cup { [kind |-> "found", id |-> FoundChannelId] }

Call(api, arg) == [api |-> api, arg |-> arg]

\* a function's result together with the platform calls it issued
Outcome(res, cs) == [res |-> res, calls |-> cs]

\* _require_api_key(): the error it raises, if any
RequireApiKeyFails(key) == ~Truthy(key)

NoApiKey == Raised("YouTubeAPIError", "api key is not set")

\* _find_channel_by_search(query)
FindChannelBySearch(query, key, o) ==
    IF RequireApiKeyFails(key) THEN Outcome(NoApiKey, <<>>)
    ELSE LET cs == <<Call("search.channel", query)>>
         IN  CASE o.kind = "exception"  -> Outcome(Raised("RequestException", "get"), cs)
               [] o.kind = "not_json"   -> Outcome(Raised("ValueError", "json"), cs)
               [] o.kind = "http_error" ->
                    Outcome(Raised("YouTubeAPIError", "search error"), cs)
               [] o.kind = "empty"      ->
                    Outcome(Raised("YouTubeAPIError", "channel not found by query"), cs)
               [] o.kind = "malformed"  -> Outcome(Raised("KeyError", "snippet"), cs)
               [] o.kind = "found"      -> Outcome(Returned(o.id), cs)

\* mutant: a handle that is not found falls back to the free-text search
GetChannelIdFromHandleOrSearch(handle, key, o) ==
    IF RequireApiKeyFails(key) THEN Outcome(NoApiKey, <<>>)
    ELSE LET h  == IF StartsWith(Strip(handle), StrAt)
                   THEN Strip(handle) ELSE StrAt \o Strip(handle)
             cs == <<Call("channels.forHandle", h)>>
             fb == FindChannelBySearch(h, key, o)
         IN  IF o.kind = "found" THEN Outcome(Returned(o.id), cs)
             ELSE Outcome(fb.res, cs \o fb.calls)

\* _get_channel_id_from_handle(handle)
GetChannelIdFromHandle(handle, key, o) ==
    IF RequireApiKeyFails(key) THEN Outcome(NoApiKey, <<>>)
    ELSE LET h  == IF StartsWith(Strip(handle), StrAt)
                   THEN Strip(handle) ELSE StrAt \o Strip(handle)
             cs == <<Call("channels.forHandle", h)>>
         IN  CASE o.kind = "exception"  -> Outcome(Raised("RequestException", "get"), cs)
               [] o.kind = "not_json"   -> Outcome(Raised("ValueError", "json"), cs)
               [] o.kind = "http_error" ->
                    Outcome(Raised("YouTubeAPIError", "channels error"), cs)
               [] o.kind = "empty"      ->
                    Outcome(Raised("YouTubeAPIError", "handle not found"), cs)
               [] o.kind = "malformed"  -> Outcome(Raised("KeyError", "id"), cs)
               [] o.kind = "found"      -> Outcome(Returned(o.id), cs)

\* _get_channel_id_from_video(video_id)
GetChannelIdFromVideo(video_id, key, o) ==
    IF RequireApiKeyFails(key) THEN Outcome(NoApiKey, <<>>)
    ELSE LET cs == <<Call("videos.owner", video_id)>>
         IN  CASE o.kind = "exception"  -> Outcome(Raised("RequestException", "get"), cs)
               [] o.kind = "not_json"   -> Outcome(Raised("ValueError", "json"), cs)
               [] o.kind = "http_error" ->
                    Outcome(Raised("YouTubeAPIError", "videos error"), cs)
               [] o.kind = "empty"      ->
                    Outcome(Raised("YouTubeAPIError", "video not found"), cs)
               [] o.kind = "malformed"  ->
                    Outcome(Raised("YouTubeAPIError", "no channelId in video"), cs)
               [] o.kind = "found"      -> Outcome(Returned(o.id), cs)

\* mutant: a length test that is off by one
IsChannelIdOffByOne(c) == StartsWith(c, StrUC) /\ Len(c) > ChannelIdMinLen

\* channel.startswith("UC") and len(channel) >= 20
IsChannelId(c) == StartsWith(c, StrUC) /\ Len(c) >= ChannelIdMinLen

\* _resolve_channel_id(channel)
ResolveChannelId(ch, key, default, o) ==
    IF RequireApiKeyFails(key) THEN Outcome(NoApiKey, <<>>)
    ELSE IF ch = None \/ Strip(ch) = <<>>
    THEN (IF ~Truthy(default)
          THEN Outcome(Raised("YouTubeAPIError", "default channel is not set"), <<>>)
          ELSE Outcome(Returned(default), <<>>))
    ELSE LET c   == Strip(ch)
             ids == ExtractIdsFromUrl(c)
         IN  IF IsChannelId(c)
             THEN Outcome(Returned(c), <<>>)
             ELSE IF StartsWith(c, StrAt)
             THEN GetChannelIdFromHandle(c, key, o)
             ELSE IF StartsWith(c, StrHttp) \/ StartsWith(c, StrHttps)
             THEN (IF Truthy(ids.video_id)
                   THEN GetChannelIdFromVideo(ids.video_id, key, o)
                   ELSE IF Truthy(ids.channel_id)
                   THEN Outcome(Returned(ids.channel_id), <<>>)
                   ELSE IF Truthy(ids.handle)
                   THEN GetChannelIdFromHandle(ids.handle, key, o)
                   ELSE FindChannelBySearch(c, key, o))
             ELSE FindChannelBySearch(c, key, o)

(***************************************************************************)
(* What the answering service answers to one completion request:           *)
(*   exception   requests.post raises                                      *)
(*   http_error  a status other than 200                                   *)
(*   not_json    200 with a body that is not JSON                          *)
(*   malformed   200 with JSON that lacks choices[0].message.content       *)
(*   empty       200 with content ""                                       *)
(*   not_text    200 with content that is no string                        *)
(*   content     200 with a non-empty string content                       *)
(***************************************************************************)
LlmOutcomes ==
    { [kind |-> k, content |-> ""] :
        k \in {"exception", "http_error", "not_json", "malformed", "empty", "not_text"} }
    \cup { [kind |-> "content", content |-> "llm text"] }

\* mutant: the content of a 200 answer is returned without being validated
AskLlmUnvalidated(text, items, key, o) ==
    LET normalized == NormalizeItems(items)
    IN  IF normalized = <<>> THEN Outcome(Returned(NoDataAnswer), <<>>)
        ELSE IF ~Truthy(key)
        THEN Outcome(Returned(GenerateLocalAnswer(text, normalized)), <<>>)
        ELSE LET cs == <<Call("llm.complete", text)>>
             IN  IF o.kind \in {"content", "empty", "not_text"}
                 THEN Outcome(Returned(LlmAnswer(o.content)), cs)
                 ELSE Outcome(Returned(GenerateLocalAnswer(text, normalized)), cs)

\* ask_llm without the early return for an empty list
AskLlmWithoutEmptyCheck(text, items, key, o) ==
    LET normalized == NormalizeItems(items)
    IN  IF ~Truthy(key)
        THEN Outcome(Returned(GenerateLocalAnswer(text, normalized)), <<>>)
        ELSE LET cs == <<Call("llm.complete", text)>>
             IN  IF o.kind = "content"
                 THEN Outcome(Returned(LlmAnswer(o.content)), cs)
                 ELSE Outcome(Returned(GenerateLocalAnswer(text, normalized)), cs)

\* ask_llm(question, items)
AskLlm(text, items, key, o) ==
    LET normalized == NormalizeItems(items)
    IN  IF normalized = <<>> THEN Outcome(Returned(NoDataAnswer), <<>>)
        ELSE IF ~Truthy(key)
        THEN Outcome(Returned(GenerateLocalAnswer(text, normalized)), <<>>)
        ELSE LET cs == <<Call("llm.complete", text)>>
             IN  IF o.kind = "content"
                 THEN Outcome(Returned(LlmAnswer(o.content)), cs)
                 ELSE Outcome(Returned(GenerateLocalAnswer(text, normalized)), cs)

(***************************************************************************)
(* The classifier functions applied to bounded questions                   *)
(***************************************************************************)

\* the pieces questions are built from
QTokens ==
    { KwEngagementRu,                      \* an engagement keyword
      <<"C_l","C_a","C_j","C_k">>,         \* the likes keyword in upper case
      KwPopular,                           \* a popularity keyword
      KwWorst,
      KwAdvice,
      <<"c_t","c_r","c_i">>,               \* the word three
      <<"c_p","c_ya","c_t","c_soft">>,     \* the word five
      <<"c_d","c_e","c_s","c_ya","c_t","c_i">>,  \* "of ten", in the limit's word table
      <<"c_t","c_o","c_p","-">>,           \* "top-"
      <<" ">>, <<"0">>, <<"1">>, <<"3">>, <<"5">> }

MaxQTokens == 3

\* the pieces of the questions whose literals mix scripts: the digit five, the
\* Arabic-Indic digits one, five and nine, the fullwidth digit two, a blank,
\* a word of each word table
LiteralTokens ==
    { <<"5">>, <<"u_0661">>, <<"u_0665">>, <<"u_0669">>, <<"u_ff12">>, <<" ">>,
      <<"c_p","c_ya","c_t","c_soft">>,
      <<"c_d","c_e","c_s","c_ya","c_t","c_i">> }

\* a literal of one digit more than int() converts
LongLiteral == [i \in 1..(IntMaxStrDigits + 1) |-> "1"]

\* the bounded questions, and the long literal alone and before " of ten"
Questions ==
    {Flatten(ts) : ts \in SeqsUpTo(QTokens, MaxQTokens)}
    \cup {Flatten(ts) : ts \in SeqsUpTo(LiteralTokens, MaxQTokens)}
    \cup {LongLiteral, LongLiteral \o <<" ">> \o LimitWords[4].word}

NoOut == [op |-> "none", metric |-> "", worst |-> FALSE, recommend |-> FALSE, n |-> 0]

NoLookup == [kind |-> "none", id |-> <<>>]

NoResult == [kind |-> "none", type |-> "", msg |-> "", value |-> <<>>]

NoLlmReply == [kind |-> "none", content |-> ""]

NoAnswer == [op |-> "none", raised |-> FALSE, answer |-> NoDataAnswer]

NoResponse ==
    [handler |-> "none", status |-> 0, error |-> "", synced |-> 0, items |-> <<>>,
     answer |-> NoDataAnswer]

NoUpsert == [kind |-> "none", type |-> "", msg |-> "", value |-> 0]

NoMws == [token |-> None, base_url |-> None, table_id |-> None]

NoCacheOp == [op |-> "none", key |-> <<>>, at |-> 0, hit |-> FALSE, data |-> <<>>]

NoPriorFetch == [known |-> FALSE, data |-> <<>>]

\* no cache call, no fetch and no request has run
HistoryIdle ==
    /\ cacheOp = NoCacheOp
    /\ lastPut = <<>>
    /\ lastFetch = <<>>
    /\ proc = <<>>
    /\ overlap = FALSE

\* the table store and the cache at rest
ServiceIdle ==
    /\ mwsEnv = NoMws
    /\ store = <<>>
    /\ cache = <<>>
    /\ now = 0

\* the answer functions at rest
AnswerIdle ==
    /\ llmKey = None
    /\ inItems = <<>>
    /\ llmReply = NoLlmReply
    /\ aout = NoAnswer

\* the resolver at rest
ResolverIdle ==
    /\ apiKey = None
    /\ defaultChannel = None
    /\ channel = None
    /\ rout = NoResult
    /\ lookup = NoLookup
    /\ calls = <<>>

InitClassify ==
    /\ question \in Questions
    /\ qout = NoOut
    /\ ResolverIdle
    /\ AnswerIdle
    /\ ServiceIdle
    /\ HistoryIdle

Classify ==
    /\ qout.op = "none"
    /\ LET c == ClassifyQuestion(question)
       IN  qout' = [op |-> "classify", metric |-> c.metric, worst |-> c.worst,
                    recommend |-> c.recommend, n |-> 0]
    /\ UNCHANGED <<question, rvars, avars, svars, cvars, pvars>>

DetectTop ==
    /\ qout.op = "none"
    /\ qout' = [NoOut EXCEPT !.op = "top_n", !.n = DetectTopN(question, TopNDefault)]
    /\ UNCHANGED <<question, rvars, avars, svars, cvars, pvars>>

ExtractLimit ==
    /\ qout.op = "none"
    /\ qout' = [NoOut EXCEPT !.op = "limit",
                             !.n = ExtractLimitFromQuestion(question, LimitDefault)]
    /\ UNCHANGED <<question, rvars, avars, svars, cvars, pvars>>

NextClassify == Classify \/ DetectTop \/ ExtractLimit

SpecClassify == InitClassify /\ [][NextClassify]_vars

(***************************************************************************)
(* The resolver applied to bounded references under every configuration    *)
(***************************************************************************)

\* the pieces references are built from
RefTokens ==
    { StrHttps \o StrYoutuBe,                                 \* https://youtu.be/
      StrHttps \o <<"w","w","w",".">> \o StrYoutubeWatch \o <<"?">> \o StrVEquals,
      StrHttps \o <<"w","w","w",".">> \o StrYoutubeChannel,
      StrHttps \o <<"w","w","w",".">> \o StrYoutubeAt,
      <<"U","C","x","x","x","x","x","x","x","x","x","x","x","x","x","x","x","x","x">>,
      <<"U","C","y","y","y","y","y","y","y","y","y","y","y","y","y","y","y","y","y","y">>,
      StrHttps \o <<"w","w","w",".">> \o StrYoutubeChannel \o <<"U","C","z">>,
      <<"@">>, <<"a","b">>, <<" ">>, <<"\f">>, <<"?">>, <<"/">>, <<"#">> }

MaxRefTokens == 2

References == {Flatten(ts) : ts \in SeqsUpTo(RefTokens, MaxRefTokens)} \cup {None}

ApiKeys == {None, <<"k","e","y">>}

DefaultChannelId == <<"U","C","d","e","f","a","u","l","t">>

DefaultChannels == {None, <<>>, DefaultChannelId}

ClassifierIdle ==
    /\ question = <<>>
    /\ qout = NoOut

InitResolve ==
    /\ apiKey \in ApiKeys
    /\ defaultChannel \in DefaultChannels
    /\ channel \in References
    /\ rout = NoResult
    /\ lookup = NoLookup
    /\ calls = <<>>
    /\ ClassifierIdle
    /\ AnswerIdle
    /\ ServiceIdle
    /\ HistoryIdle

\* one call of _resolve_channel_id(channel); the platform answers its lookup
ResolveChannel ==
    /\ rout.kind = "none"
    /\ \E o \in LookupOutcomes :
         LET r == ResolveChannelId(channel, apiKey, defaultChannel, o)
         IN  /\ rout' = r.res
             /\ calls' = r.calls
             /\ lookup' = IF r.calls = <<>> THEN NoLookup ELSE o
    /\ UNCHANGED <<apiKey, defaultChannel, channel, qvars, avars, svars, cvars, pvars>>

NextResolve == ResolveChannel

SpecResolve == InitResolve /\ [][NextResolve]_vars

(***************************************************************************)
(* ask_llm and the local answer applied to bounded questions and items     *)
(***************************************************************************)

\* f"https://www.youtube.com/watch?v={vid}"
VideoUrl(vid) == <<"https://www.youtube.com/watch?v=", vid>>

ItemDict(id, title, views, likes, comments) ==
    [platform |-> "YouTube", external_id |-> id, url |-> VideoUrl(id), title |-> title,
     views |-> views, likes |-> likes, comments_count |-> comments]

\* the item dicts the lists are drawn from: two with equal views, one of them
\* with a negative count; one whose rate lies between two thousandths; one
\* whose counts are not integers
ItemPool ==
    { ItemDict("a", "A", IntV(10000), IntV(-1), IntV(0)),
      ItemDict("b", "B", IntV(10000), IntV(0), IntV(1)),
      ItemDict("c", "C", IntV(2000), IntV(5), IntV(0)),
      ItemDict("d", "D", NoneV,   TextV,   IntV(2)) }

MaxItems == 2

ItemLists == SeqsUpTo(ItemPool, MaxItems)

AnswerQTokens == { KwEngagementRu, KwWorst, <<"1">> }

MaxAnswerQTokens == 1

AnswerQuestions == {Flatten(ts) : ts \in SeqsUpTo(AnswerQTokens, MaxAnswerQTokens)}

LlmKeys == {None, <<"k","e","y">>}

InitAnswer ==
    /\ question \in AnswerQuestions
    /\ qout = NoOut
    /\ llmKey \in LlmKeys
    /\ inItems \in ItemLists
    /\ llmReply = NoLlmReply
    /\ aout = NoAnswer
    /\ ResolverIdle
    /\ ServiceIdle
    /\ HistoryIdle

\* one call of ask_llm(question, items); the answering service answers
AskLlmCall ==
    /\ aout.op = "none"
    /\ \E o \in LlmOutcomes :
         LET r == AskLlm(question, inItems, llmKey, o)
         IN  /\ aout' = [op |-> "ask_llm", raised |-> r.res.kind = "raise",
                         answer |-> r.res.value]
             /\ llmReply' = IF r.calls = <<>> THEN NoLlmReply ELSE o
    /\ UNCHANGED <<llmKey, inItems, qvars, rvars, svars, cvars, pvars>>

\* one call of _generate_local_answer(question, items)
GenerateLocal ==
    /\ aout.op = "none"
    /\ aout' = [op |-> "local", raised |-> FALSE,
                answer |-> GenerateLocalAnswer(question, inItems)]
    /\ UNCHANGED <<llmKey, inItems, llmReply, qvars, rvars, svars, cvars, pvars>>

NextAnswer == AskLlmCall \/ GenerateLocal

SpecAnswer == InitAnswer /\ [][NextAnswer]_vars

(***************************************************************************)
(* services/youtube_client.py: the result cache and fetch_channel_videos   *)
(*                                                                         *)
(* The cache is the dictionary _CACHE as a function from keys to entries.  *)
(* What the platform answers to the video search (search) and to the       *)
(* statistics request (videos):                                            *)
(*   exception   requests.get raises                                       *)
(*   not_json    a body that is not JSON, whatever the status              *)
(*   http_error  a JSON body with a status other than 200                  *)
(*   malformed   200 with an item that lacks id.videoId / id               *)
(*   ok          200 with the ids / the videos                             *)
(***************************************************************************)

CacheTtlSeconds == 60

CacheKey(channel_id, max_results) == <<channel_id, max_results>>

CacheMiss == [hit |-> FALSE, data |-> <<>>]

\* _cache_get with an entry expiring when its age reaches the TTL
CacheGetExpiringAtTtl(c, t, channel_id, max_results) ==
    LET key == CacheKey(channel_id, max_results)
    IN  IF key \notin DOMAIN c THEN CacheMiss
        ELSE IF t - c[key].ts >= CacheTtlSeconds THEN CacheMiss
        ELSE [hit |-> TRUE, data |-> c[key].data]

NoEntry == [ts |-> 0, data |-> <<>>]

\* _cache_get from its time.time() on, with the entry _CACHE.get(key) gave
\* and the time t it reads; None is CacheMiss
CacheGetEntry(entry, t) ==
    IF t - entry.ts > CacheTtlSeconds THEN CacheMiss
    ELSE [hit |-> TRUE, data |-> entry.data]

\* _cache_get(channel_id, max_results) run at time t
CacheGet(c, t, channel_id, max_results) ==
    LET key == CacheKey(channel_id, max_results)
    IN  IF key \notin DOMAIN c THEN CacheMiss
        ELSE CacheGetEntry(c[key], t)

\* _cache_set replacing the list of an entry and leaving its timestamp
CacheSetKeepingTimestamp(c, t, channel_id, max_results, data) ==
    LET key == CacheKey(channel_id, max_results)
    IN  [k \in DOMAIN c \cup {key} |->
            IF k # key THEN c[k]
            ELSE IF key \in DOMAIN c THEN [ts |-> c[key].ts, data |-> data]
            ELSE [ts |-> t, data |-> data]]

\* _cache_set(channel_id, max_results, data) at time t
CacheSet(c, t, channel_id, max_results, data) ==
    LET key == CacheKey(channel_id, max_results)
    IN  [k \in DOMAIN c \cup {key} |->
            IF k = key THEN [ts |-> t, data |-> data] ELSE c[k]]

\* a video of the platform's statistics answer; a count is the text the
\* platform sends, or None when the key is missing
NoTitle == "<none>"

PlatformVideo(id, title, views, likes, comments) ==
    [id |-> id, title |-> title, viewCount |-> views, likeCount |-> likes,
     commentCount |-> comments]

\* _to_int(stats.get(name, 0)): int(x), and 0 when int() raises
StatToInt(x) ==
    IF x = None THEN 0
    ELSE IF IntOfText(x).ok THEN IntOfText(x).v
    ELSE 0

\* f"Video {vid}"
DefaultTitles == [a |-> "Video a", b |-> "Video b"]

\* the dict fetch_channel_videos builds of one video
VideoToItem(v) ==
    ItemDict(v.id,
             IF v.title = NoTitle THEN DefaultTitles[v.id] ELSE v.title,
             IntV(StatToInt(v.viewCount)),
             IntV(StatToInt(v.likeCount)),
             IntV(StatToInt(v.commentCount)))

\* what fetch_channel_videos does with the answer to its search request: the
\* exception it raises, the empty list it returns for a channel without
\* videos, or nothing yet when the statistics request follows
SearchResult(s) ==
    CASE s.kind = "exception"  -> Raised("RequestException", "get")
      [] s.kind = "not_json"   -> Raised("ValueError", "json")
      [] s.kind = "http_error" -> Raised("YouTubeAPIError", "video search error")
      [] s.kind = "malformed"  -> Raised("KeyError", "videoId")
      [] s.kind = "ok" /\ s.ids = <<>> -> Returned(<<>>)
      [] s.kind = "ok" /\ s.ids # <<>> -> NoResult

\* what fetch_channel_videos does with the answer to its statistics request:
\* the exception it raises or the result list it builds
VideosResult(v) ==
    CASE v.kind = "exception"  -> Raised("RequestException", "get")
      [] v.kind = "not_json"   -> Raised("ValueError", "json")
      [] v.kind = "http_error" -> Raised("YouTubeAPIError", "videos error")
      [] v.kind = "malformed"  -> Raised("KeyError", "id")
      [] v.kind = "ok" ->
           Returned([i \in 1..Len(v.items) |-> VideoToItem(v.items[i])])

(***************************************************************************)
(* services/mws_client.py: the content table                               *)
(*                                                                         *)
(* The table is the sequence of its records; a successful list request     *)
(* answers with all of them, a successful create request appends.  What    *)
(* the table store answers to a list or a create request:                  *)
(*   exception   requests.get / requests.post raises                       *)
(*   http_error  a status other than 200 (list), 200 or 201 (create)       *)
(*   not_json    a success status with a body that is not JSON (list)      *)
(*   ok          success                                                   *)
(***************************************************************************)

MwsListOutcomes == {[kind |-> k] : k \in {"exception", "http_error", "not_json", "ok"}}

MwsCreateOutcomes == {[kind |-> k] : k \in {"exception", "http_error", "ok"}}

\* if not MWS_BASE_URL or not MWS_CONTENT_TABLE_ID
MwsTableMissing(m) == ~Truthy(m.base_url) \/ ~Truthy(m.table_id)

\* _get_headers() raises
GetHeadersFails(m) == ~Truthy(m.token)

MwsNotConfigured == Raised("MWSClientError", "table is not configured")

MwsNoToken == Raised("MWSClientError", "token is not set")

\* item.get(name, 0) or 0: 0 for the falsy values None, 0 and ''
OrZero(x) ==
    IF x.t \in {"none", "empty"} \/ (x.t = "int" /\ x.v = 0) THEN IntV(0) ELSE x

\* building the payload of one item raises TypeError: a text compared with 0
\* or divided
PayloadRaises(item) ==
    LET views    == OrZero(item.views)
        likes    == OrZero(item.likes)
        comments == OrZero(item.comments_count)
    IN  \/ views.t = "text"
        \/ views.v > 0 /\ (likes.t = "text" \/ comments.t = "text")

\* the record upsert_content_items creates of one item
PayloadRecord(item) ==
    LET views    == OrZero(item.views)
        likes    == OrZero(item.likes)
        comments == OrZero(item.comments_count)
    IN  [fields |->
           [platform |-> item.platform, external_id |-> item.external_id,
            url |-> item.url, title |-> item.title,
            views |-> views, likes |-> likes, comments_count |-> comments,
            engagement_rate |->
                IF views.v > 0 THEN EngagementRate(views.v, likes.v, comments.v)
                ELSE EngagementRate(0, 0, 0)]]

UpsertReturned(n) == [kind |-> "return", type |-> "", msg |-> "", value |-> n]

UpsertRaised(e) == [kind |-> "raise", type |-> e.type, msg |-> e.msg, value |-> 0]

\* the external ids a list of records holds, the empty ones left out
ExistingExternalIds(records) ==
    {records[i].fields.external_id : i \in DOMAIN records} \ {""}

\* the items whose external_id is not among the existing ones
NewItems(items, existing) ==
    SelectSeq(items, LAMBDA it : it.external_id \notin existing)

RECURSIVE ExternalIdsOf(_)
ExternalIdsOf(items) ==
    IF items = <<>> THEN <<>>
    ELSE <<Head(items).external_id>> \o ExternalIdsOf(Tail(items))

\* int(fields.get(name, 0) or 0) raises
ReadRaises(x) == OrZero(x).t = "text"

\* the dict fetch_content_items builds of one record
RecordToItem(rec) ==
    [platform |-> rec.fields.platform, external_id |-> rec.fields.external_id,
     url |-> rec.fields.url, title |-> rec.fields.title,
     views |-> OrZero(rec.fields.views), likes |-> OrZero(rec.fields.likes),
     comments_count |-> OrZero(rec.fields.comments_count),
     engagement_rate |-> rec.fields.engagement_rate]

\* records[-limit:] when there are more than limit records: the last limit of
\* them, all of them for limit 0 (records[-0:]) and the ones after the first
\* -limit for a negative limit; the records as they are otherwise.  (limit=None,
\* the default no caller relies on, keeps the records as they are too.)
LastRecords(records, limit) ==
    IF Len(records) <= limit THEN records
    ELSE IF limit > 0 THEN SubSeq(records, Len(records) - limit + 1, Len(records))
    ELSE IF limit = 0 THEN records
    ELSE SubSeq(records, 1 - limit, Len(records))

RECURSIVE ReadableItems(_)
ReadableItems(records) ==
    IF records = <<>> THEN <<>>
    ELSE LET f == Head(records).fields
         IN  IF ReadRaises(f.views) \/ ReadRaises(f.likes) \/ ReadRaises(f.comments_count)
             THEN ReadableItems(Tail(records))
             ELSE <<RecordToItem(Head(records))>> \o ReadableItems(Tail(records))

(***************************************************************************)
(* main.py and the services at work                                        *)
(*                                                                         *)
(* A request to a handler, or a call of fetch_channel_videos or            *)
(* upsert_content_items made directly, is a process: proc[p] says where it *)
(* waits and what it holds.  It runs until it sends a request to the video *)
(* platform, the table store or the answering service and goes on when the *)
(* answer has come; in between the clock moves and other processes take    *)
(* their steps.  What a process does without waiting, from one request to  *)
(* the next one or to its end, is one step.  The cache is shared and the   *)
(* clock moves on its own, so _cache_get and _cache_set are two steps      *)
(* each: _CACHE.get(key) and then time.time(), time.time() and then the    *)
(* assignment to _CACHE[key].                                              *)
(*   pc = "cache_clock" has an entry of _CACHE.get(key), before time.time()*)
(*        "search"      waits for the answer to the video search           *)
(*        "videos"      ... to the statistics request                      *)
(*        "cache_store" has (time.time(), result), before _CACHE[key] = .. *)
(*        "mws_read"    ... to the list request of fetch_content_items     *)
(*        "mws_list"    ... to the list request of upsert_content_items    *)
(*        "mws_create"  ... to the create request                          *)
(*        "llm"         ... to the completion request                      *)
(*        "done"        has returned, responded or raised                  *)
(* resp is the response of a handler; status 500 is the framework's answer *)
(* to an exception that leaves the handler.                                *)
(***************************************************************************)

MwsSet == [token |-> <<"t">>, base_url |-> <<"u">>, table_id |-> <<"d">>]

MwsEnvs == { MwsSet, [MwsSet EXCEPT !.token = None], [MwsSet EXCEPT !.table_id = <<>>] }

\* the items batches are drawn from: one with an id and one with the empty id
\* and the empty text for its views
UpsertPool ==
    { ItemDict("a", "A", IntV(4), IntV(1), IntV(1)),
      ItemDict("",  "E", EmptyTextV, NoneV, IntV(1)) }

MaxBatch == 2

Batches == SeqsUpTo(UpsertPool, MaxBatch)

MaxStore == 4

Warning(src, msg) == [src |-> src, msg |-> msg]

\* the dummy items of sync_content
DummyItems ==
    << [platform |-> "YouTube", external_id |-> "video_1",
        url |-> <<"https://youtube.com/watch?v=", "video_1">>,
        title |-> "Test video 1",
        views |-> IntV(1234), likes |-> IntV(150), comments_count |-> IntV(12)],
       [platform |-> "YouTube", external_id |-> "video_2",
        url |-> <<"https://youtube.com/watch?v=", "video_2">>,
        title |-> "Test video 2",
        views |-> IntV(5678), likes |-> IntV(430), comments_count |-> IntV(45)] >>

\* the fixed answers of chat
ChannelUnavailableAnswer == [NoDataAnswer EXCEPT !.kind = "channel_unavailable"]

NoSourceAnswer == [NoDataAnswer EXCEPT !.kind = "no_source"]

\* an exception leaves the handler
Unhandled(handler, type) ==
    [NoResponse EXCEPT !.handler = handler, !.status = 500, !.error = type]

\* SyncResult(synced=len(items), items=items)
SyncResult(items) ==
    [NoResponse EXCEPT !.handler = "sync", !.status = 200, !.synced = Len(items),
                       !.items = items]

\* ChatResponse(answer=answer)
ChatResponse(answer) ==
    [NoResponse EXCEPT !.handler = "chat", !.status = 200, !.answer = answer]

\* except YouTubeAPIError / except MWSClientError
Caught(res, type) == res.kind = "raise" /\ res.type = type

Escapes(res, type) == res.kind = "raise" /\ res.type # type

HasCall(cs, api) == \E i \in DOMAIN cs : cs[i].api = api

(* What the collaborators can answer *)

VideoIdLists == { <<>>, <<"a", "b">> }

VideoLists ==
    { <<>>,
      <<PlatformVideo("a", "A", <<" ", "0", "_", "4", "\n">>, <<"+", "u_0661">>, <<"1">>),
        PlatformVideo("b", NoTitle, None, <<"x">>, <<"-", "2">>)>> }

SearchOutcomes ==
    { [kind |-> k, ids |-> <<>>] :
        k \in {"exception", "not_json", "http_error", "malformed"} }
    \cup { [kind |-> "ok", ids |-> ids] : ids \in VideoIdLists }

VideosOutcomes ==
    { [kind |-> k, items |-> <<>>] :
        k \in {"exception", "not_json", "http_error", "malformed"} }
    \cup { [kind |-> "ok", items |-> vs] : vs \in VideoLists }

\* what a failed list request makes fetch_content_items and
\* upsert_content_items raise
ListFailure(lo) ==
    CASE lo.kind = "exception"  -> Raised("RequestException", "get")
      [] lo.kind = "http_error" -> Raised("MWSClientError", "list error")
      [] lo.kind = "not_json"   -> Raised("ValueError", "json")

\* what a failed create request makes upsert_content_items raise
CreateFailure(co) ==
    CASE co.kind = "exception"  -> Raised("RequestException", "post")
      [] co.kind = "http_error" -> Raised("MWSClientError", "create error")

RequestChannelId ==
    <<"U","C","y","y","y","y","y","y","y","y","y","y","y","y","y","y","y","y","y","y">>

\* the channel of a request: none, or a channel id, which
\* _resolve_channel_id returns without asking the platform
RequestChannels == {None, RequestChannelId}

SyncMaxResults == 5

ChatQuestions == { <<>>, KwWorst \o <<" ">> \o KwEngagementRu }

ConfigSet ==
    [apiKey |-> <<"k","e","y">>, defaultChannel |-> DefaultChannelId,
     mwsEnv |-> MwsSet, llmKey |-> <<"k","e","y">>]

\* everything configured, or one setting missing
ServiceConfigs ==
    { ConfigSet,
      [ConfigSet EXCEPT !.apiKey = None],
      [ConfigSet EXCEPT !.defaultChannel = None],
      [ConfigSet EXCEPT !.mwsEnv = [MwsSet EXCEPT !.token = None]],
      [ConfigSet EXCEPT !.llmKey = None] }

MaxClock == 61

\* the instants the clock shows: the start and the ones from the TTL on
ClockInstants == {t \in 0..MaxClock : t = 0 \/ t >= CacheTtlSeconds}

NoProc ==
    [pc |-> "idle", op |-> "none", ch |-> None, q |-> <<>>, n |-> 0,
     prior |-> NoPriorFetch, id |-> <<>>, entry |-> NoEntry, read |-> CacheMiss,
     ids |-> <<>>, items |-> <<>>, listed |-> FALSE, existing |-> {},
     new_items |-> <<>>, calls |-> <<>>, log |-> <<>>, rres |-> NoResult,
     fres |-> NoResult, ures |-> NoUpsert, resp |-> NoResponse]

InFlight(pr) == pr.pc \notin {"idle", "done"}

\* a history with the entry of key replaced
HistoryPut(h, key, t, data) ==
    [k \in DOMAIN h \cup {key} |-> IF k = key THEN [ts |-> t, data |-> data] ELSE h[k]]

\* the handler returns its response, or an exception leaves it
Responded(pr, response) == [pr EXCEPT !.pc = "done", !.resp = response]

\* the answering service is not asked
LlmNotAsked == NoLlmReply

\* answer = ask_llm(request.question, dict_items), up to its request;
\* return ChatResponse(answer=answer) when it sends none
AskBegin(pr, dict_items) ==
    IF AskLlm(pr.q, dict_items, llmKey, LlmNotAsked).calls = <<>>
    THEN Responded([pr EXCEPT !.items = dict_items],
             ChatResponse(AskLlm(pr.q, dict_items, llmKey, LlmNotAsked).res.value))
    ELSE [pr EXCEPT !.pc = "llm", !.items = dict_items,
                    !.calls = @ \o <<Call("llm.complete", pr.q)>>]

\* chat after fetch_channel_videos: the fixed answer of except YouTubeAPIError,
\* another exception leaving the handler, or the items on their way to ask_llm
ChatAfterFetch(pr, res) ==
    IF Caught(res, "YouTubeAPIError")
    THEN Responded([pr EXCEPT !.log = @ \o <<Warning("youtube", res.msg)>>],
             ChatResponse(IF Truthy(pr.ch) THEN ChannelUnavailableAnswer
                          ELSE NoSourceAnswer))
    ELSE IF Escapes(res, "YouTubeAPIError")
    THEN Responded(pr, Unhandled("chat", res.type))
    ELSE AskBegin(pr, res.value)

\* a call of upsert_content_items has returned or raised: the caller has the
\* result; sync_content warns of an MWSClientError and returns its SyncResult
AfterUpsert(pr, res) ==
    IF pr.op = "upsert" THEN [pr EXCEPT !.pc = "done", !.ures = res]
    ELSE IF Escapes(res, "MWSClientError")
    THEN Responded([pr EXCEPT !.ures = res], Unhandled("sync", res.type))
    ELSE Responded([pr EXCEPT !.ures = res,
                              !.log = @ \o (IF Caught(res, "MWSClientError")
                                            THEN <<Warning("mws", res.msg)>> ELSE <<>>)],
                   SyncResult(pr.items))

\* upsert_content_items(items), up to its list request
UpsertBegin(pr, items) ==
    IF MwsTableMissing(mwsEnv)
    THEN AfterUpsert([pr EXCEPT !.items = items], UpsertRaised(MwsNotConfigured))
    ELSE IF GetHeadersFails(mwsEnv)
    THEN AfterUpsert([pr EXCEPT !.items = items], UpsertRaised(MwsNoToken))
    ELSE [pr EXCEPT !.pc = "mws_list", !.items = items,
                    !.calls = @ \o <<Call("mws.list", <<>>)>>]

\* upsert_content_items with new_items in hand: nothing to create, a payload
\* that raises, or the create request
UpsertNew(pr, new_items) ==
    IF new_items = <<>> THEN AfterUpsert(pr, UpsertReturned(0))
    ELSE IF \E i \in DOMAIN new_items : PayloadRaises(new_items[i])
    THEN AfterUpsert(pr, UpsertRaised(Raised("TypeError", "payload")))
    ELSE [pr EXCEPT !.pc = "mws_create", !.new_items = new_items,
                    !.calls = @ \o <<Call("mws.create", ExternalIdsOf(new_items))>>]

\* upsert_content_items after its list request: existing_external_ids and
\* new_items of the records listed
UpsertListed(pr, lo, records) ==
    IF lo.kind # "ok" THEN AfterUpsert(pr, UpsertRaised(ListFailure(lo)))
    ELSE UpsertNew([pr EXCEPT !.listed = TRUE,
                              !.existing = ExistingExternalIds(records)],
                   NewItems(pr.items, ExistingExternalIds(records)))

\* sync_content after fetch_channel_videos: the dummy items of except
\* YouTubeAPIError, another exception leaving the handler, or the items
\* fetched; then upsert_content_items
SyncAfterFetch(pr, res) ==
    IF Escapes(res, "YouTubeAPIError")
    THEN Responded(pr, Unhandled("sync", res.type))
    ELSE IF Caught(res, "YouTubeAPIError")
    THEN UpsertBegin([pr EXCEPT !.log = @ \o <<Warning("youtube", res.msg)>>],
                     DummyItems)
    ELSE UpsertBegin(pr, res.value)

\* a call of fetch_channel_videos has returned or raised
AfterFetch(pr, res) ==
    CASE pr.op = "fetch" -> [pr EXCEPT !.pc = "done", !.fres = res]
      [] pr.op = "sync"  -> SyncAfterFetch([pr EXCEPT !.fres = res], res)
      [] pr.op = "chat"  -> ChatAfterFetch([pr EXCEPT !.fres = res], res)

\* fetch_channel_videos with what _cache_get gave: the cached list, or the
\* search request
FetchCached(pr, cached) ==
    IF cached.hit THEN AfterFetch([pr EXCEPT !.read = cached], Returned(cached.data))
    ELSE [pr EXCEPT !.pc = "search",
                    !.calls = @ \o <<Call("search.videos", pr.id)>>]

\* fetch_channel_videos with what _resolve_channel_id gave: _cache_get up to
\* its time.time(), None at once when _CACHE c has no entry for the key
FetchResolved(pr, max_results, r, c) ==
    IF r.res.kind = "raise" THEN AfterFetch(pr, r.res)
    ELSE IF CacheKey(r.res.value, max_results) \notin DOMAIN c
    THEN FetchCached([pr EXCEPT !.n = max_results, !.id = r.res.value], CacheMiss)
    ELSE [pr EXCEPT !.pc = "cache_clock", !.n = max_results, !.id = r.res.value,
                    !.entry = c[CacheKey(r.res.value, max_results)]]

\* fetch_channel_videos(max_results, channel), up to the time.time() of
\* _cache_get or to its search request
FetchBegin(pr, max_results, ch) ==
    IF RequireApiKeyFails(apiKey) THEN AfterFetch(pr, NoApiKey)
    ELSE FetchResolved(pr, max_results,
                       ResolveChannelId(ch, apiKey, defaultChannel, NoLookup),
                       cache)

\* chat after fetch_content_items: a warning for an MWSClientError, another
\* exception leaving the handler; the items to ask_llm, or
\* fetch_channel_videos for the default channel when there are none
ChatAfterRead(pr, res) ==
    IF Escapes(res, "MWSClientError")
    THEN Responded(pr, Unhandled("chat", res.type))
    ELSE IF Caught(res, "MWSClientError")
    THEN FetchBegin([pr EXCEPT !.log = @ \o <<Warning("mws", res.msg)>>], pr.n, None)
    ELSE IF res.value # <<>> THEN AskBegin(pr, res.value)
    ELSE FetchBegin(pr, pr.n, None)

\* fetch_content_items(limit), up to its list request
ReadBegin(pr) ==
    IF MwsTableMissing(mwsEnv)
    THEN ChatAfterRead([pr EXCEPT !.rres = MwsNotConfigured], MwsNotConfigured)
    ELSE IF GetHeadersFails(mwsEnv)
    THEN ChatAfterRead([pr EXCEPT !.rres = MwsNoToken], MwsNoToken)
    ELSE [pr EXCEPT !.pc = "mws_read", !.calls = @ \o <<Call("mws.list", <<>>)>>]

\* fetch_content_items after its list request
ReadResult(lo, records, limit) ==
    IF lo.kind # "ok" THEN ListFailure(lo)
    ELSE Returned(ReadableItems(LastRecords(records, limit)))

\* the configuration and what the pure functions' specifications hold
ConfigUnchanged == UNCHANGED <<qvars, rvars, avars, mwsEnv, cacheOp>>

\* p starts while another process is under way
Overtakes(p) == \E o \in DOMAIN proc \ {p} : InFlight(proc[o])

\* POST /sync: sync_content(body) up to its first request
SyncRequest(p) ==
    /\ ~InFlight(proc[p])
    /\ \E ch \in RequestChannels :
         proc' = [proc EXCEPT ![p] =
             FetchBegin([NoProc EXCEPT !.op = "sync", !.ch = ch], SyncMaxResults, ch)]
    /\ overlap' = (overlap \/ Overtakes(p))
    /\ UNCHANGED <<store, cache, now, lastPut, lastFetch>>
    /\ ConfigUnchanged

\* the request of chat(request) with question q and channel ch, limit known
ChatBegin(pr) ==
    IF Truthy(pr.ch) THEN FetchBegin(pr, pr.n, pr.ch) ELSE ReadBegin(pr)

\* POST /chat: chat(request) up to its first request.  With a channel the
\* table is not read.
ChatRequest(p) ==
    /\ ~InFlight(proc[p])
    /\ \E q \in ChatQuestions, ch \in RequestChannels :
         proc' = [proc EXCEPT ![p] =
             ChatBegin([NoProc EXCEPT !.op = "chat", !.ch = ch, !.q = q,
                           !.n = ExtractLimitFromQuestion(q, LimitDefault)])]
    /\ overlap' = (overlap \/ Overtakes(p))
    /\ UNCHANGED <<store, cache, now, lastPut, lastFetch>>
    /\ ConfigUnchanged

\* the table store answers the list request of fetch_content_items, and chat
\* goes on to its next request or to its response
ReadAnswer(p) ==
    /\ proc[p].pc = "mws_read"
    /\ \E lo \in MwsListOutcomes :
         proc' = [proc EXCEPT ![p] =
             ChatAfterRead([proc[p] EXCEPT !.rres = ReadResult(lo, store, proc[p].n)],
                           ReadResult(lo, store, proc[p].n))]
    /\ UNCHANGED <<store, cache, now, lastPut, lastFetch, overlap>>
    /\ ConfigUnchanged

\* _cache_get reads time.time() and gives the list of its entry or None, and
\* fetch_channel_videos returns the list or sends its search request
CacheGetClock(p) ==
    /\ proc[p].pc = "cache_clock"
    /\ proc' = [proc EXCEPT ![p] =
          FetchCached(proc[p], CacheGetEntry(proc[p].entry, now))]
    /\ UNCHANGED <<store, cache, now, lastPut, lastFetch, overlap>>
    /\ ConfigUnchanged

\* the platform answers the video search
SearchAnswer(p) ==
    /\ proc[p].pc = "search"
    /\ \E s \in SearchOutcomes :
         /\ proc' = [proc EXCEPT ![p] =
               IF SearchResult(s) = NoResult
               THEN [proc[p] EXCEPT !.pc = "videos", !.ids = s.ids,
                                    !.calls = @ \o <<Call("videos.list", s.ids)>>]
               ELSE AfterFetch(proc[p], SearchResult(s))]
         /\ lastFetch' =
               IF proc[p].op = "fetch" /\ SearchResult(s).kind = "return"
               THEN HistoryPut(lastFetch, CacheKey(proc[p].id, proc[p].n), now, <<>>)
               ELSE lastFetch
    /\ UNCHANGED <<store, cache, now, lastPut, overlap>>
    /\ ConfigUnchanged

\* the platform answers the statistics request: the result list is built and
\* _cache_set reads time.time()
VideosAnswer(p) ==
    /\ proc[p].pc = "videos"
    /\ \E v \in VideosOutcomes :
         proc' = [proc EXCEPT ![p] =
             IF v.kind = "ok"
             THEN [proc[p] EXCEPT !.pc = "cache_store",
                                  !.entry = [ts |-> now, data |-> VideosResult(v).value]]
             ELSE AfterFetch(proc[p], VideosResult(v))]
    /\ UNCHANGED <<store, cache, now, lastPut, lastFetch, overlap>>
    /\ ConfigUnchanged

\* _CACHE[key] = (time.time(), data) with the time read before, which lastPut
\* records, and return result
CacheSetStore(p) ==
    /\ proc[p].pc = "cache_store"
    /\ cache' = CacheSet(cache, proc[p].entry.ts, proc[p].id, proc[p].n,
                         proc[p].entry.data)
    /\ lastPut' = HistoryPut(lastPut, CacheKey(proc[p].id, proc[p].n),
                             proc[p].entry.ts, proc[p].entry.data)
    /\ lastFetch' = IF proc[p].op = "fetch"
                     THEN HistoryPut(lastFetch, CacheKey(proc[p].id, proc[p].n),
                                     now, proc[p].entry.data)
                     ELSE lastFetch
    /\ proc' = [proc EXCEPT ![p] = AfterFetch(proc[p], Returned(proc[p].entry.data))]
    /\ UNCHANGED <<store, now, overlap>>
    /\ ConfigUnchanged

\* the table store answers the list request of upsert_content_items
ListAnswer(p) ==
    /\ proc[p].pc = "mws_list"
    /\ \E lo \in MwsListOutcomes :
         proc' = [proc EXCEPT ![p] = UpsertListed(proc[p], lo, store)]
    /\ UNCHANGED <<store, cache, now, lastPut, lastFetch, overlap>>
    /\ ConfigUnchanged

\* the records the create request adds to the table
CreatedRecords(new_items) ==
    [i \in 1..Len(new_items) |-> PayloadRecord(new_items[i])]

\* the table store answers the create request
CreateAnswer(p) ==
    /\ proc[p].pc = "mws_create"
    /\ \E co \in MwsCreateOutcomes :
         IF co.kind = "ok"
         THEN /\ Len(store) + Len(proc[p].new_items) <= MaxStore
              /\ store' = store \o CreatedRecords(proc[p].new_items)
              /\ proc' = [proc EXCEPT ![p] =
                    AfterUpsert(proc[p], UpsertReturned(Len(proc[p].new_items)))]
         ELSE /\ store' = store
              /\ proc' = [proc EXCEPT ![p] =
                    AfterUpsert(proc[p], UpsertRaised(CreateFailure(co)))]
    /\ UNCHANGED <<cache, now, lastPut, lastFetch, overlap>>
    /\ ConfigUnchanged

\* the answering service answers, and chat returns ChatResponse(answer)
CompletionAnswer(p) ==
    /\ proc[p].pc = "llm"
    /\ \E o \in LlmOutcomes :
         proc' = [proc EXCEPT ![p] =
             Responded(proc[p],
                 ChatResponse(AskLlm(proc[p].q, proc[p].items, llmKey, o).res.value))]
    /\ UNCHANGED <<store, cache, now, lastPut, lastFetch, overlap>>
    /\ ConfigUnchanged

\* time.time() moves on, whatever the processes wait for
AdvanceClock ==
    /\ \E t \in ClockInstants :
         /\ t > now
         /\ now' = t
    /\ UNCHANGED <<qvars, rvars, avars, mwsEnv, store, cache, cvars, pvars>>

(***************************************************************************)
(* The service: one server process.  sync_content and chat are coroutines  *)
(* that never await, so the event loop serves one request at a time, from  *)
(* its arrival to its response.                                            *)
(***************************************************************************)
Workers == {"w1"}

Init ==
    /\ \E cfg \in ServiceConfigs :
          /\ apiKey = cfg.apiKey
          /\ defaultChannel = cfg.defaultChannel
          /\ mwsEnv = cfg.mwsEnv
          /\ llmKey = cfg.llmKey
    /\ store = <<>>
    /\ cache = <<>>
    /\ now = 0
    /\ calls = <<>>
    /\ channel = None
    /\ question = <<>>
    /\ qout = NoOut
    /\ rout = NoResult
    /\ lookup = NoLookup
    /\ inItems = <<>>
    /\ llmReply = NoLlmReply
    /\ aout = NoAnswer
    /\ cacheOp = NoCacheOp
    /\ lastPut = <<>>
    /\ lastFetch = <<>>
    /\ proc = [p \in Workers |-> NoProc]
    /\ overlap = FALSE

Next ==
    \/ \E p \in DOMAIN proc : SyncRequest(p)
    \/ \E p \in DOMAIN proc : ChatRequest(p)
    \/ \E p \in DOMAIN proc : ReadAnswer(p)
    \/ \E p \in DOMAIN proc : CacheGetClock(p)
    \/ \E p \in DOMAIN proc : SearchAnswer(p)
    \/ \E p \in DOMAIN proc : VideosAnswer(p)
    \/ \E p \in DOMAIN proc : CacheSetStore(p)
    \/ \E p \in DOMAIN proc : ListAnswer(p)
    \/ \E p \in DOMAIN proc : CreateAnswer(p)
    \/ \E p \in DOMAIN proc : CompletionAnswer(p)
    \/ AdvanceClock

Spec == Init /\ [][Next]_vars

(***************************************************************************)
(* upsert_content_items called directly with bounded batches, by two       *)
(* callers on one table: a call can be overtaken while it waits for the    *)
(* table store.                                                            *)
(***************************************************************************)
UpsertCallers == {"u1", "u2"}

InitUpsert ==
    /\ mwsEnv \in MwsEnvs
    /\ store = <<>>
    /\ cache = <<>>
    /\ now = 0
    /\ ClassifierIdle
    /\ ResolverIdle
    /\ AnswerIdle
    /\ cacheOp = NoCacheOp
    /\ lastPut = <<>>
    /\ lastFetch = <<>>
    /\ proc = [p \in UpsertCallers |-> NoProc]
    /\ overlap = FALSE

\* a call of upsert_content_items(batch) up to its list request
UpsertCall(p) ==
    /\ ~InFlight(proc[p])
    /\ \E b \in Batches :
         proc' = [proc EXCEPT ![p] = UpsertBegin([NoProc EXCEPT !.op = "upsert"], b)]
    /\ overlap' = (overlap \/ Overtakes(p))
    /\ UNCHANGED <<store, cache, now, lastPut, lastFetch>>
    /\ ConfigUnchanged

NextUpsert ==
    \/ \E p \in DOMAIN proc : UpsertCall(p)
    \/ \E p \in DOMAIN proc : ListAnswer(p)
    \/ \E p \in DOMAIN proc : CreateAnswer(p)

SpecUpsert == InitUpsert /\ [][NextUpsert]_vars

(***************************************************************************)
(* fetch_channel_videos called directly by two threads of one interpreter, *)
(* for the default channel or for a channel id, with the clock moving.     *)
(* _CACHE.get(key) and the assignment to _CACHE[key] are single dict       *)
(* operations; a thread can be switched out between either of them and the *)
(* time.time() that goes with it.                                          *)
(* lastFetch keeps, for each (channel id, count), the time and the list of *)
(* the last of these calls that asked the platform and returned.           *)
(***************************************************************************)
FetchCallers == {"c1", "c2"}

FetchArgs ==
    { [channel |-> None, max_results |-> SyncMaxResults],
      [channel |-> RequestChannelId, max_results |-> SyncMaxResults] }

FetchConfigs ==
    { [apiKey |-> ConfigSet.apiKey, defaultChannel |-> ConfigSet.defaultChannel],
      [apiKey |-> None, defaultChannel |-> ConfigSet.defaultChannel],
      [apiKey |-> ConfigSet.apiKey, defaultChannel |-> None] }

\* fetch_channel_videos is called under one of cfgs
FetchInit(cfgs) ==
    /\ \E cfg \in cfgs :
          /\ apiKey = cfg.apiKey
          /\ defaultChannel = cfg.defaultChannel
    /\ llmKey = None
    /\ mwsEnv = NoMws
    /\ store = <<>>
    /\ cache = <<>>
    /\ now = 0
    /\ ClassifierIdle
    /\ channel = None
    /\ rout = NoResult
    /\ lookup = NoLookup
    /\ calls = <<>>
    /\ inItems = <<>>
    /\ llmReply = NoLlmReply
    /\ aout = NoAnswer
    /\ cacheOp = NoCacheOp
    /\ lastPut = <<>>
    /\ lastFetch = <<>>
    /\ proc = [p \in FetchCallers |-> NoProc]
    /\ overlap = FALSE

InitFetch == FetchInit(FetchConfigs)

\* the channel id _resolve_channel_id gives for None or for a channel id
ResolvedId(ch, default) == IF ch = None THEN default ELSE ch

\* the list of the last call for key that asked the platform and returned,
\* when it returned at most 60 seconds before time t
PriorFetch(key, t) ==
    IF key \in DOMAIN lastFetch /\ t - lastFetch[key].ts <= CacheTtlSeconds
    THEN [known |-> TRUE, data |-> lastFetch[key].data]
    ELSE NoPriorFetch

\* a call of fetch_channel_videos(max_results, channel) up to the time.time()
\* of _cache_get or to its search request, with arguments of args
FetchCall(p, args) ==
    /\ ~InFlight(proc[p])
    /\ \E a \in args :
         proc' = [proc EXCEPT ![p] =
             FetchBegin([NoProc EXCEPT
                           !.op = "fetch", !.ch = a.channel, !.n = a.max_results,
                           !.prior = PriorFetch(CacheKey(
                               ResolvedId(a.channel, defaultChannel), a.max_results),
                               now)],
                        a.max_results, a.channel)]
    /\ overlap' = (overlap \/ Overtakes(p))
    /\ UNCHANGED <<store, cache, now, lastPut, lastFetch>>
    /\ ConfigUnchanged

\* what a thread calls with: the first one either channel, the other one the
\* default channel
CallerArgs(p) == IF p = "c1" THEN FetchArgs ELSE {a \in FetchArgs : a.channel = None}

NextFetch ==
    \/ \E p \in DOMAIN proc : FetchCall(p, CallerArgs(p))
    \/ \E p \in DOMAIN proc : CacheGetClock(p)
    \/ \E p \in DOMAIN proc : SearchAnswer(p)
    \/ \E p \in DOMAIN proc : VideosAnswer(p)
    \/ \E p \in DOMAIN proc : CacheSetStore(p)
    \/ AdvanceClock

SpecFetch == InitFetch /\ [][NextFetch]_vars

(***************************************************************************)
(* The same two threads calling fetch_channel_videos for one key, the      *)
(* default channel and the count of /sync.                                 *)
(***************************************************************************)
RaceKey == CacheKey(DefaultChannelId, SyncMaxResults)

RaceArgs == { [channel |-> None, max_results |-> SyncMaxResults] }

InitRace == FetchInit({[apiKey |-> ConfigSet.apiKey,
                        defaultChannel |-> ConfigSet.defaultChannel]})

NextRace ==
    \/ \E p \in DOMAIN proc : FetchCall(p, RaceArgs)
    \/ \E p \in DOMAIN proc : CacheGetClock(p)
    \/ \E p \in DOMAIN proc : SearchAnswer(p)
    \/ \E p \in DOMAIN proc : VideosAnswer(p)
    \/ \E p \in DOMAIN proc : CacheSetStore(p)
    \/ AdvanceClock

SpecRace == InitRace /\ [][NextRace]_vars

(***************************************************************************)
(* Two /sync requests served at the same time by two processes of the      *)
(* service on one table, without YOUTUBE_API_KEY: each has the dummy items *)
(* and runs upsert_content_items, where it can be overtaken between its    *)
(* list request and its create request.                                    *)
(***************************************************************************)
SyncCallers == {"s1", "s2"}

InitSyncRace ==
    /\ apiKey = None
    /\ defaultChannel = ConfigSet.defaultChannel
    /\ llmKey = None
    /\ mwsEnv = MwsSet
    /\ store = <<>>
    /\ cache = <<>>
    /\ now = 0
    /\ ClassifierIdle
    /\ channel = None
    /\ rout = NoResult
    /\ lookup = NoLookup
    /\ calls = <<>>
    /\ inItems = <<>>
    /\ llmReply = NoLlmReply
    /\ aout = NoAnswer
    /\ cacheOp = NoCacheOp
    /\ lastPut = <<>>
    /\ lastFetch = <<>>
    /\ proc = [p \in SyncCallers |-> NoProc]
    /\ overlap = FALSE

NextSyncRace ==
    \/ \E p \in DOMAIN proc : SyncRequest(p)
    \/ \E p \in DOMAIN proc : ListAnswer(p)
    \/ \E p \in DOMAIN proc : CreateAnswer(p)

SpecSyncRace == InitSyncRace /\ [][NextSyncRace]_vars

(***************************************************************************)
(* Claims about the classifier                                             *)
(***************************************************************************)

\* the engagement / likes / comments keywords the classifier looks for
HasEngagementKeyword(text) ==
    \E kw \in {KwEngagementRu, KwEngagementEn, KwLike, KwReaction, KwComment} :
        Contains(Lower(text), kw)

HasPopularityKeyword(text) ==
    \E kw \in {KwPopular, KwMostViews, KwMostPopular} : Contains(Lower(text), kw)

\* C5: classify yields metric = engagement for every question that contains an
\* engagement, likes or comments keyword, with or without a popularity keyword,
\* and views only when no such keyword is present.
C5_EngagementKeywordWins ==
    qout.op = "classify" =>
        (qout.metric = "engagement" <=> HasEngagementKeyword(question))

\* C5 amended: classify yields metric = engagement exactly for the questions
\* that contain an engagement, likes or comments keyword and no popularity
\* keyword; a question with a popularity keyword yields views, with or without
\* an engagement keyword.
C5_PopularityKeywordWins ==
    qout.op = "classify" =>
        /\ qout.metric \in {"views", "engagement"}
        /\ qout.metric = "engagement" <=>
              (HasEngagementKeyword(question) /\ ~HasPopularityKeyword(question))

\* a question with both kinds of keyword was classified as views
C5_Witness ==
    /\ qout.op = "classify"
    /\ HasEngagementKeyword(question) /\ HasPopularityKeyword(question)
    /\ qout.metric = "views"

\* the value of the last integer literal of a text (1000 for a greater one);
\* a literal is a maximal run of decimal digits, of any script or several
LastLiteral(text) ==
    LET nums == FindAllNumbers(Lower(text)) IN ParseIntUpTo(nums[Len(nums)], 1000)

\* the last literal is one int() converts
LastLiteralConverts(text) ==
    LET nums == FindAllNumbers(Lower(text)) IN ~IntRefuses(nums[Len(nums)])

HasLiteral(text) == FindAllNumbers(Lower(text)) # <<>>

ClampTo(n, lo, hi) == IF n < lo THEN lo ELSE IF n > hi THEN hi ELSE n

WordCount(text) ==
    LET q == Lower(text)
    IN  IF \E w \in {<<"c_t","c_r","c_i">>, <<"c_t","c_o","c_p","-","3">>,
                     <<"c_t","c_o","c_p"," ","3">>} : Contains(q, w)
        THEN 3
        ELSE IF \E w \in {<<"c_p","c_ya","c_t","c_soft">>, <<"c_t","c_o","c_p","-","5">>,
                          <<"c_t","c_o","c_p"," ","5">>} : Contains(q, w)
        THEN 5
        ELSE 3

C6_WitnessOtherScript ==
    /\ qout.op = "top_n"
    /\ question = <<"5", " ", "u_0669">>
    /\ qout.n = 9

\* a literal of two scripts' digits, above 10, was dropped and the word gave 5
C6_WitnessMixedScripts ==
    /\ qout.op = "top_n"
    /\ question = <<"u_0661", "u_ff12", "c_p","c_ya","c_t","c_soft">>
    /\ LastLiteral(question) = 12
    /\ qout.n = 5

HasLimitWord(text) ==
    \E i \in DOMAIN LimitWords : Contains(Lower(text), LimitWords[i].word)

\* what the limit's word table gives: 5 for the words of five, else 10 for the
\* words of ten, else the default 5
LimitWordCount(text) ==
    LET q == Lower(text)
    IN  IF \E i \in 1..3 : Contains(q, LimitWords[i].word) THEN 5
        ELSE IF \E i \in 4..6 : Contains(q, LimitWords[i].word) THEN 10
        ELSE 5

(***************************************************************************)
(* C16: extract_limit_from_question with the default 5 returns a value in  *)
(* [3, 20]; for a question with an integer literal it returns the last     *)
(* literal clamped into [3, 20], whatever words the question has; without  *)
(* a literal and without a word of the table it returns 5.                 *)
(***************************************************************************)
C16_LimitIsClampedLastLiteral ==
    qout.op = "limit" =>
        /\ LimitLow <= qout.n /\ qout.n <= LimitHigh
        /\ HasLiteral(question) =>
              qout.n = Max({LimitLow, Min({LimitHigh, LastLiteral(question)})})
        /\ (~HasLiteral(question) /\ ~HasLimitWord(question)) => qout.n = LimitDefault

(***************************************************************************)
(* C16 amended: extract_limit_from_question with the default 5 returns a   *)
(* value in [3, 20]; for a question whose last integer literal int()       *)
(* converts (at most 4300 digits) it returns that literal clamped into     *)
(* [3, 20], whatever words the question has; a longer last literal is      *)
(* passed over and the result comes from the word table, else the default  *)
(* 5, as it does when there is no literal.                                 *)
(***************************************************************************)
C16_LimitIsClampedConvertedLiteral ==
    qout.op = "limit" =>
        /\ LimitLow <= qout.n /\ qout.n <= LimitHigh
        /\ qout.n = IF HasLiteral(question) /\ LastLiteralConverts(question)
                    THEN Max({LimitLow, Min({LimitHigh, LastLiteral(question)})})
                    ELSE LimitWordCount(question)

\* a literal too long for int() before a word of the table: the word gives 10
C16_WitnessRefused ==
    /\ qout.op = "limit"
    /\ HasLiteral(question) /\ ~LastLiteralConverts(question)
    /\ HasLimitWord(question)
    /\ qout.n = 10

\* a literal in digits of another script is the limit
C16_WitnessOtherScript ==
    /\ qout.op = "limit"
    /\ question = <<"u_0669">>
    /\ qout.n = 9

\* a literal of two scripts' digits is one literal: 55, clamped to 20
C16_WitnessMixedScripts ==
    /\ qout.op = "limit"
    /\ question = <<"5", "u_0665">>
    /\ LastLiteral(question) = 55
    /\ qout.n = LimitHigh

\* a literal above 20 next to a word of the table: the literal wins, clamped
C16_Witness ==
    /\ qout.op = "limit"
    /\ HasLiteral(question) /\ LastLiteral(question) > LimitHigh
    /\ HasLimitWord(question)
    /\ qout.n = LimitHigh

\* no literal: the word table gives 10
C16_WitnessWord ==
    /\ qout.op = "limit"
    /\ ~HasLiteral(question)
    /\ HasLimitWord(question)
    /\ qout.n = 10

(***************************************************************************)
(* Claims about the resolver                                               *)
(***************************************************************************)

Resolved == rout.kind # "none"

\* C7 as stated: every reference with prefix UC and length at least 20 is
\* returned unchanged with no network call, whatever the default channel and
\* the credentials are.
C7_CanonicalReturnedAlways ==
    (Resolved /\ channel # None /\ StartsWith(channel, StrUC) /\ Len(channel) >= 20) =>
        (rout = Returned(channel) /\ calls = <<>>)

\* C7 amended: for every reference with prefix UC whose length without the
\* surrounding whitespace is at least 20, and for every default channel: with
\* an API key resolve returns the reference without its surrounding whitespace
\* and issues no network call; without an API key it raises and issues no call.
C7_CanonicalReturnedWithKey ==
    (Resolved /\ channel # None /\ StartsWith(channel, StrUC)
        /\ Len(Strip(channel)) >= 20) =>
        /\ calls = <<>>
        /\ Truthy(apiKey)  => rout = Returned(Strip(channel))
        /\ ~Truthy(apiKey) => rout.kind = "raise"

\* a canonical id with trailing whitespace was resolved with no default channel
C7_Witness ==
    /\ Resolved /\ channel # None /\ StartsWith(channel, StrUC)
    /\ Len(Strip(channel)) >= 20 /\ Strip(channel) # channel
    /\ ~Truthy(defaultChannel)
    /\ rout.kind = "return"

BlankReference == channel = None \/ Strip(channel) = <<>>

\* the exception classes a failed handle lookup and a failed platform call raise
ResolutionErrorType ==
    GetChannelIdFromHandle(<<"@","a">>, <<"k">>, [kind |-> "empty", id |-> <<>>]).res.type
TransportErrorType ==
    GetChannelIdFromHandle(<<"@","a">>, <<"k">>, [kind |-> "http_error", id |-> <<>>]).res.type

\* C8: with credentials configured, an absent, empty or whitespace-only
\* reference resolves to the default channel id when that is non-empty, with no
\* network call; when the default is empty too, resolve fails with a
\* configuration error that differs in kind from a resolution failure and from
\* an upstream transport failure.
C8_DefaultOrConfigurationError ==
    (Resolved /\ BlankReference /\ Truthy(apiKey)) =>
        /\ calls = <<>>
        /\ Truthy(defaultChannel)  => rout = Returned(defaultChannel)
        /\ ~Truthy(defaultChannel) =>
              /\ rout.kind = "raise"
              /\ rout.type \notin {ResolutionErrorType, TransportErrorType}

IsHandleReference == channel # None /\ StartsWith(channel, StrAt)

OneHandleLookupOnly ==
    /\ Len(calls) = 1
    /\ calls[1].api = "channels.forHandle"
    /\ lookup.kind = "empty" => rout.kind = "raise"

\* C9 as stated: every reference starting with @ issues exactly one handle
\* lookup and no other lookup, and fails when the lookup finds nothing.
C9_OneHandleLookupAlways ==
    (Resolved /\ IsHandleReference) => OneHandleLookupOnly

\* C9 amended: for every reference starting with @: with an API key resolve
\* issues exactly one handle lookup and no other lookup, and fails when the
\* lookup finds nothing; without an API key it fails before any lookup.
C9_OneHandleLookupWithKey ==
    (Resolved /\ IsHandleReference) =>
        /\ Truthy(apiKey)  => OneHandleLookupOnly
        /\ ~Truthy(apiKey) => (calls = <<>> /\ rout.kind = "raise")

\* a handle was looked up, the platform found nothing and resolve raised
C9_Witness ==
    /\ Resolved /\ IsHandleReference
    /\ Len(calls) = 1 /\ lookup.kind = "empty" /\ rout.kind = "raise"

IsHttpReference ==
    channel # None /\ (StartsWith(channel, StrHttp) \/ StartsWith(channel, StrHttps))

\* the text that follows an occurrence of p in s, up to the next ? or &
IdAfter(s, i, p) ==
    BeforeFirst(BeforeFirst(SubSeq(s, i + Len(p), Len(s)), <<"?">>), <<"&">>)

\* youtu.be/<id> or youtube.com/watch ... v=<id>, with a non-empty <id>
IsVideoUrl(s) ==
    \/ \E i \in Occurrences(s, StrYoutuBe) : IdAfter(s, i, StrYoutuBe) # <<>>
    \/ /\ Contains(s, StrYoutubeWatch)
       /\ \E i \in Occurrences(s, StrVEquals) : IdAfter(s, i, StrVEquals) # <<>>

OneOwnerLookupOnly ==
    /\ Len(calls) = 1
    /\ calls[1].api = "videos.owner"
    /\ lookup.kind = "empty" => rout.kind = "raise"

\* C10 as stated: every http(s) short-form or long-form video URL is resolved by
\* exactly one video-owner lookup, never as a channel-path or handle URL, and
\* fails when the video does not exist.
C10_VideoUrlOwnerLookupAlways ==
    (Resolved /\ IsHttpReference /\ IsVideoUrl(channel)) => OneOwnerLookupOnly

\* the video id the resolver reads from a URL: the text after the last
\* youtu.be/ (else, for a watch URL, after the last v=) up to the next ? or &
VideoIdOf(s) ==
    IF Contains(s, StrYoutuBe)
    THEN IdAfter(s, Max(Occurrences(s, StrYoutuBe)), StrYoutuBe)
    ELSE IF Contains(s, StrYoutubeWatch) /\ Contains(s, StrVEquals)
    THEN IdAfter(s, Max(Occurrences(s, StrVEquals)), StrVEquals)
    ELSE <<>>

\* C10 amended: for every http(s) reference that holds youtu.be/ or
\* youtube.com/watch with v=, and whose id (the text after the last youtu.be/,
\* or after the last v=, up to the next ? or &) is not empty: with an API key
\* resolve issues exactly one video-owner lookup for that id and no other
\* lookup, also when the URL holds /channel/ or /@, and fails when the video
\* does not exist; without an API key it fails before any lookup.
C10_VideoUrlOwnerLookupWithKey ==
    (Resolved /\ IsHttpReference /\ VideoIdOf(Strip(channel)) # <<>>) =>
        /\ Truthy(apiKey)  =>
              (OneOwnerLookupOnly /\ calls[1].arg = VideoIdOf(Strip(channel)))
        /\ ~Truthy(apiKey) => (calls = <<>> /\ rout.kind = "raise")

\* a video URL that also holds /channel/ was resolved through its video's owner
C10_Witness ==
    /\ Resolved /\ IsHttpReference /\ VideoIdOf(Strip(channel)) # <<>>
    /\ Contains(channel, <<"/","c","h","a","n","n","e","l","/">>)
    /\ Len(calls) = 1 /\ calls[1].api = "videos.owner"
    /\ rout = Returned(FoundChannelId)

(***************************************************************************)
(* Claims about ask_llm                                                    *)
(***************************************************************************)

\* C4: for a non-empty item list and a configured answering service, ask_llm
\* returns the service's content only when the call succeeds with status 200
\* and a non-empty string content; for every other outcome it returns exactly
\* what the local answer generator returns for the same question and items;
\* it never raises.
C4_LlmContentOrLocalAnswer ==
    (aout.op = "ask_llm" /\ inItems # <<>> /\ Truthy(llmKey)) =>
        /\ ~aout.raised
        /\ llmReply.kind = "content" => aout.answer = LlmAnswer(llmReply.content)
        /\ llmReply.kind # "content" =>
              aout.answer = GenerateLocalAnswer(question, inItems)

\* the service answered 200 with a content that is no string, for items whose
\* counts needed normalising, and ask_llm returned the local answer
C4_Witness ==
    /\ aout.op = "ask_llm" /\ Truthy(llmKey)
    /\ \E i \in DOMAIN inItems : inItems[i].views.t # "int"
    /\ llmReply.kind = "not_text"
    /\ aout.answer.kind = "local"
\* no two records with one external_id
NoDuplicateIds(records) ==
    \A i, j \in DOMAIN records :
        i # j => records[i].fields.external_id # records[j].fields.external_id

(***************************************************************************)
(* C1: after any sequence of upsert_content_items calls made one after the *)
(* other, for every input batch, the table store never holds two records   *)
(* with the same external_id.  The code filters a batch against the listed *)
(* records only: an id the batch holds twice is created twice, and an      *)
(* empty id is never counted as existing.                                  *)
(***************************************************************************)
C1_NoDuplicateExternalIds == ~overlap => NoDuplicateIds(store)

\* a handler has responded, or an exception has left it
Served(pr) == pr.op \in {"sync", "chat"} /\ pr.pc = "done"

(***************************************************************************)
(* C2: every failure of a collaborator call made while handling /sync or   *)
(* /chat is non-fatal: the handler completes with a response and no        *)
(* exception leaves it.  The code catches YouTubeAPIError and              *)
(* MWSClientError only; what requests raises, a body that is not JSON and  *)
(* a payload without the expected keys leave the handler.                  *)
(***************************************************************************)
C2_FailuresNeverPropagate ==
    \A p \in DOMAIN proc : Served(proc[p]) => proc[p].resp.status = 200

\* the request hit a configuration error of the video platform
ConfigurationErrorHit(pr) ==
    \E i \in DOMAIN pr.log :
        /\ pr.log[i].src = "youtube"
        /\ pr.log[i].msg \in {"api key is not set", "default channel is not set"}

(***************************************************************************)
(* C3: a request that hits a configuration error (no API key, or an empty  *)
(* reference with no default channel) never completes with a successful    *)
(* response that carries substituted item data.  sync_content catches the  *)
(* error and answers 200 with its two dummy items.                         *)
(***************************************************************************)
C3_ConfigurationErrorSurfaced ==
    \A p \in DOMAIN proc :
        (Served(proc[p]) /\ ConfigurationErrorHit(proc[p])) =>
            ~(proc[p].resp.status = 200 /\ proc[p].resp.items # <<>>)


\* the characters that end the path segment of a URL
SegmentEnds == {"/", "?", "#"}

\* the path segment that follows the first "youtube.com/channel/" of s
ChannelSegment(s) ==
    LET start == Min(Occurrences(s, StrYoutubeChannel)) + Len(StrYoutubeChannel)
        ends  == {i \in start..Len(s) : s[i] \in SegmentEnds}
    IN  SubSeq(s, start, IF ends = {} THEN Len(s) ELSE Min(ends) - 1)

\* an http(s) reference of the form .../channel/<ID> and nothing that makes it
\* a video link
IsChannelUrl(s) ==
    /\ StartsWith(s, StrHttp) \/ StartsWith(s, StrHttps)
    /\ Contains(s, StrYoutubeChannel)
    /\ ~Contains(s, StrYoutuBe)
    /\ ~(Contains(s, StrYoutubeWatch) /\ Contains(s, StrVEquals))
    /\ ChannelSegment(s) # <<>>

(***************************************************************************)
(* C11: an http(s) reference .../channel/<ID>, followed by nothing, a      *)
(* slash, a further path, a query string or a fragment, resolves to        *)
(* exactly <ID> with no network call (the API key being set).  The code    *)
(* cuts the segment at "/", "?" and "&" but not at "#".                    *)
(***************************************************************************)
C11_ChannelUrlResolvesToSegment ==
    (Resolved /\ Truthy(apiKey) /\ channel # None /\ IsChannelUrl(Strip(channel))) =>
        /\ rout = Returned(ChannelSegment(Strip(channel)))
        /\ calls = <<>>

(***************************************************************************)
(* The cache on its own: _cache_set and _cache_get called directly, with   *)
(* the clock moving between calls.                                         *)
(***************************************************************************)
CacheKeys ==
    { CacheKey(DefaultChannelId, SyncMaxResults),
      CacheKey(RequestChannelId, SyncMaxResults),
      CacheKey(DefaultChannelId, LimitLow) }

CacheLists == {[i \in 1..Len(vs) |-> VideoToItem(vs[i])] : vs \in VideoLists}

InitCache ==
    /\ apiKey = None
    /\ defaultChannel = None
    /\ llmKey = None
    /\ mwsEnv = NoMws
    /\ store = <<>>
    /\ cache = <<>>
    /\ now = 0
    /\ ClassifierIdle
    /\ channel = None
    /\ rout = NoResult
    /\ lookup = NoLookup
    /\ calls = <<>>
    /\ inItems = <<>>
    /\ llmReply = NoLlmReply
    /\ aout = NoAnswer
    /\ HistoryIdle

\* _cache_set(channel_id, max_results, data)
CachePut ==
    \E key \in CacheKeys, data \in CacheLists :
        /\ cache' = CacheSet(cache, now, key[1], key[2], data)
        /\ lastPut' = [k \in DOMAIN lastPut \cup {key} |->
                          IF k = key THEN [ts |-> now, data |-> data] ELSE lastPut[k]]
        /\ cacheOp' = [op |-> "put", key |-> key, at |-> now, hit |-> FALSE, data |-> data]
        /\ UNCHANGED <<qvars, rvars, avars, mwsEnv, store, now, lastFetch, pvars>>

\* _cache_get(channel_id, max_results)
CacheRead ==
    \E key \in CacheKeys :
        LET got == CacheGet(cache, now, key[1], key[2])
        IN  /\ cacheOp' = [op |-> "get", key |-> key, at |-> now,
                           hit |-> got.hit, data |-> got.data]
            /\ UNCHANGED <<qvars, rvars, avars, svars, lastPut, lastFetch, pvars>>

NextCache == CachePut \/ CacheRead \/ AdvanceClock

SpecCache == InitCache /\ [][NextCache]_vars

(***************************************************************************)
(* C12: a _cache_get that follows a _cache_set of a list for the same key, *)
(* with no later _cache_set for that key, returns exactly that list when   *)
(* the entry's age is at most 60 seconds (60 included) and None when it is *)
(* older; a _cache_set for any other key in between changes nothing.       *)
(***************************************************************************)
C12_GetReturnsLastPutWithinTtl ==
    (cacheOp.op = "get" /\ cacheOp.key \in DOMAIN lastPut) =>
        LET put == lastPut[cacheOp.key]
        IN  IF cacheOp.at - put.ts <= CacheTtlSeconds
            THEN cacheOp.hit /\ cacheOp.data = put.data
            ELSE ~cacheOp.hit

\* a get exactly 60 seconds after the put, with another key put in between
C12_Witness ==
    /\ cacheOp.op = "get"
    /\ cacheOp.key \in DOMAIN lastPut
    /\ cacheOp.at - lastPut[cacheOp.key].ts = CacheTtlSeconds
    /\ cacheOp.hit
    /\ cacheOp.data # <<>>
    /\ \E k \in DOMAIN lastPut :
          k # cacheOp.key /\ lastPut[k].ts > lastPut[cacheOp.key].ts

\* a get of an entry older than the TTL
C12_WitnessExpired ==
    /\ cacheOp.op = "get"
    /\ cacheOp.key \in DOMAIN lastPut
    /\ cacheOp.at - lastPut[cacheOp.key].ts > CacheTtlSeconds
    /\ ~cacheOp.hit

\* a call of fetch_channel_videos made directly has returned or raised
Fetched(pr) == pr.op = "fetch" /\ pr.pc = "done"

\* the call began at most 60 seconds after the last call for its channel id
\* and count that asked the platform and returned
WithinTtlOfPrior(pr) == pr.prior.known

ServedFromCache(pr) ==
    /\ ~HasCall(pr.calls, "search.videos")
    /\ ~HasCall(pr.calls, "videos.list")
    /\ pr.fres = Returned(pr.prior.data)

(***************************************************************************)
(* C13: once fetch_channel_videos has asked the platform and returned a    *)
(* list for a channel id and count (an empty list included), a later call  *)
(* for the same channel id and count at most 60 seconds later issues no    *)
(* search and no statistics request and returns the same list.             *)
(***************************************************************************)
C13_FetchWithinTtlServedFromCache ==
    \A p \in DOMAIN proc :
        (Fetched(proc[p]) /\ WithinTtlOfPrior(proc[p])) => ServedFromCache(proc[p])

\* what does hold: a call that finds an entry for its key and reads a time
\* at most 60 seconds after the entry's returns the entry's list and sends no
\* request
C13_FreshEntryServedFromCache ==
    [][\A p \in DOMAIN proc :
          (/\ proc[p].pc = "cache_clock"
           /\ proc'[p] # proc[p]
           /\ now - proc[p].entry.ts <= CacheTtlSeconds) =>
              /\ proc'[p].pc = "done"
              /\ proc'[p].fres = Returned(proc[p].entry.data)
              /\ proc'[p].calls = <<>>]_vars

(***************************************************************************)
(* Claims about the answer generator                                       *)
(***************************************************************************)

\* x comes before y by the metric: greater first for the best, less first
\* for the worst
MetricBefore(x, y, metric, worst) ==
    IF worst THEN KeyLess(x, y, metric) ELSE KeyLess(y, x, metric)

\* the place of item i in the sorted list: after every item that comes before
\* it by the metric, and after the earlier items of equal metric value
PlaceOf(items, i, metric, worst) ==
    1 + Cardinality({ j \in 1..Len(items) :
            \/ MetricBefore(items[j], items[i], metric, worst)
            \/ /\ ~MetricBefore(items[i], items[j], metric, worst)
               /\ j < i })

ItemAtPlace(items, k, metric, worst) ==
    items[CHOOSE i \in 1..Len(items) : PlaceOf(items, i, metric, worst) = k]

(***************************************************************************)
(* C14: for a non-empty item list, the entries _generate_local_answer      *)
(* lists are the first min(requested count, number of items) items of the  *)
(* normalized list ordered by the question's metric, greatest first for    *)
(* the best and least first for the worst, items of equal metric value     *)
(* staying in their input order in both directions.                        *)
(***************************************************************************)
C14_EntriesAreSortedPrefix ==
    (aout.op = "local" /\ inItems # <<>>) =>
        LET normalized == NormalizeItems(inItems)
            q_info     == ClassifyQuestion(question)
            requested  == DetectTopN(question, TopNDefault)
            entries    == aout.answer.entries
        IN  /\ Len(entries) = Min({requested, Len(normalized)})
            /\ \A k \in 1..Len(entries) :
                  LET it == ItemAtPlace(normalized, k, q_info.metric, q_info.worst)
                  IN  /\ entries[k].title = it.title
                      /\ entries[k].url = it.url
                      /\ entries[k].views = it.views.v
                      /\ entries[k].likes = it.likes.v
                      /\ entries[k].comments = it.comments_count.v

\* two items of equal views listed best first, in their input order
C14_Witness ==
    /\ aout.op = "local"
    /\ Len(inItems) = 2
    /\ inItems[1].title # inItems[2].title
    /\ inItems[1].views = inItems[2].views
    /\ ~ClassifyQuestion(question).worst
    /\ ClassifyQuestion(question).metric = "views"
    /\ Len(aout.answer.entries) = 2
    /\ aout.answer.entries[1].title = inItems[1].title

\* two items listed worst first, in the reverse of their input order
C14_WitnessWorst ==
    /\ aout.op = "local"
    /\ Len(inItems) = 2
    /\ ClassifyQuestion(question).worst
    /\ Len(aout.answer.entries) = 2
    /\ aout.answer.entries[1].title = inItems[2].title
    /\ aout.answer.entries[1].views < aout.answer.entries[2].views

(***************************************************************************)
(* C15: for an empty item list _generate_local_answer and ask_llm return   *)
(* the fixed no-data message and do not raise, and ask_llm sends nothing   *)
(* to the answering service, with or without OPENROUTER_API_KEY.           *)
(***************************************************************************)
C15_EmptyListGivesNoDataAnswer ==
    (aout.op # "none" /\ inItems = <<>>) =>
        /\ ~aout.raised
        /\ aout.answer = NoDataAnswer
        /\ llmReply = NoLlmReply

\* ask_llm with an empty list and the key set
C15_Witness ==
    /\ aout.op = "ask_llm"
    /\ inItems = <<>>
    /\ Truthy(llmKey)
    /\ aout.answer = NoDataAnswer

\* _generate_local_answer with an empty list
C15_WitnessLocal ==
    /\ aout.op = "local"
    /\ inItems = <<>>
    /\ aout.answer = NoDataAnswer

\* every cache entry is, timestamp and list together, the last put for its key
C17_EntryIsLastPut ==
    \A key \in DOMAIN cache : key \in DOMAIN lastPut /\ cache[key] = lastPut[key]

\* a step of the call p: the entry a call reads is the last put for its key,
\* timestamp and list together; a call that finds it fresh returns its list;
\* a call that has missed returns the empty list of an empty search, leaving
\* the cache as it is, or pairs the list it fetched with the time it reads
\* and stores that pair
C17_CallStep(p) ==
    /\ (~InFlight(proc[p]) /\ proc'[p].pc = "cache_clock") =>
          /\ RaceKey \in DOMAIN lastPut
          /\ proc'[p].entry = lastPut[RaceKey]
          /\ cache' = cache
    /\ (proc[p].pc = "cache_clock" /\ proc'[p].pc = "done") =>
          /\ proc'[p].read.hit
          /\ proc'[p].fres = Returned(proc[p].entry.data)
          /\ cache' = cache
    /\ (proc[p].pc = "search" /\ proc'[p].pc = "done"
           /\ proc'[p].fres.kind = "return") =>
          /\ proc'[p].fres.value = <<>>
          /\ cache' = cache
    /\ (proc[p].pc = "videos" /\ proc'[p].pc = "cache_store") =>
          /\ proc'[p].entry.ts = now
          /\ cache' = cache
    /\ (proc[p].pc = "cache_store" /\ proc'[p].pc = "done") =>
          /\ proc'[p].fres = Returned(proc[p].entry.data)
          /\ cache'[RaceKey] = proc[p].entry
          /\ lastPut'[RaceKey] = proc[p].entry

(***************************************************************************)
(* C17: under every interleaving of concurrent fetch_channel_videos calls  *)
(* for one (channel id, count), the timestamp and the list of the cache    *)
(* entry come from one and the same put for that key, a cache read gives   *)
(* None or the whole list of one earlier put for that key, and a call that *)
(* returns gives the list it read, the empty list of an empty search, or   *)
(* the list it fetched and put itself.                                     *)
(***************************************************************************)
C17_EntriesComeFromOnePut ==
    /\ []C17_EntryIsLastPut
    /\ [][\A p \in DOMAIN proc : C17_CallStep(p)]_vars

\* both calls missed the cache and each has fetched and put its own list; the
\* entry is the later put, its time and its list
C17_Witness ==
    \E p, q \in DOMAIN proc :
        /\ overlap
        /\ Fetched(proc[p]) /\ ~proc[p].read.hit /\ proc[p].fres.kind = "return"
        /\ Fetched(proc[q]) /\ ~proc[q].read.hit /\ proc[q].fres.kind = "return"
        /\ proc[q].fres.value # <<>>
        /\ proc[p].fres.value # proc[q].fres.value
        /\ cache[RaceKey].data = proc[p].fres.value
        /\ cache[RaceKey].ts > 0
        /\ now > cache[RaceKey].ts

(***************************************************************************)
(* Claims about the handlers' data sources                                 *)
(***************************************************************************)

PlatformApis == {"search.channel", "videos.owner", "search.videos", "videos.list"}

PlatformAsked(pr) == \E i \in DOMAIN pr.calls : pr.calls[i].api \in PlatformApis

Warned(pr, src) == \E i \in DOMAIN pr.log : pr.log[i].src = src

\* fetch_content_items returned at least one item to chat
TableGaveItems(pr) == pr.rres.kind = "return" /\ pr.rres.value # <<>>

\* fetch_channel_videos raised
PlatformFetchFailed(pr) == pr.fres.kind = "raise"

\* with a channel the table is not read; without one it is read first, and
\* the platform is asked only when the table gave no items or failed
SourceOrder(pr) ==
    /\ Truthy(pr.ch) =>
          (~HasCall(pr.calls, "mws.list") /\ ~Warned(pr, "mws") /\ pr.rres = NoResult)
    /\ (~Truthy(pr.ch) /\ pr.fres # NoResult) =>
          /\ pr.rres # NoResult
          /\ ~TableGaveItems(pr)
          /\ (PlatformAsked(pr) /\ HasCall(pr.calls, "mws.list")) =>
                pr.calls[1].api = "mws.list"
    /\ TableGaveItems(pr) => (~PlatformAsked(pr) /\ ~Warned(pr, "youtube"))

C18_SourceOrder ==
    \A p \in DOMAIN proc : proc[p].op = "chat" => SourceOrder(proc[p])

\* a failed platform fetch never reaches ask_llm
C18_NoAnswerAfterFailedFetch ==
    \A p \in DOMAIN proc :
        (proc[p].op = "chat" /\ PlatformFetchFailed(proc[p])) =>
            /\ ~HasCall(proc[p].calls, "llm.complete")
            /\ proc[p].resp.answer.kind \notin {"llm", "local"}

(***************************************************************************)
(* C18: in chat, with a channel only the video platform is used and the    *)
(* table is never read; without a channel the table is read first and the  *)
(* platform is asked only if the table gave no items or failed; and when   *)
(* the platform fetch fails the handler returns its fixed error message    *)
(* and ask_llm is never called.                                            *)
(***************************************************************************)
C18_ChatSourcesAndFixedMessage ==
    \A p \in DOMAIN proc :
        (proc[p].op = "chat" /\ proc[p].pc = "done") =>
            /\ SourceOrder(proc[p])
            /\ PlatformFetchFailed(proc[p]) =>
                  /\ proc[p].resp.status = 200
                  /\ proc[p].resp.answer = IF Truthy(proc[p].ch)
                                           THEN ChannelUnavailableAnswer
                                           ELSE NoSourceAnswer
                  /\ ~HasCall(proc[p].calls, "llm.complete")

\* the ids of the videos the platform can return
PlatformVideoIds == UNION {{vs[i].id : i \in DOMAIN vs} : vs \in VideoLists}

(***************************************************************************)
(* C19: after any sequence of /sync requests every record of the table has *)
(* an external_id the video platform returned in a successful fetch; when  *)
(* the fetch fails, the dummy items video_1 and video_2 go to the caller   *)
(* and are not written to the table.                                       *)
(***************************************************************************)
C19_StoreHoldsPlatformItemsOnly ==
    /\ \A i \in DOMAIN store : store[i].fields.external_id \in PlatformVideoIds
    /\ \A p \in DOMAIN proc :
          (proc[p].op = "sync" /\ proc[p].pc = "done" /\ Warned(proc[p], "youtube")) =>
              /\ proc[p].resp.status = 200 => proc[p].resp.items = DummyItems
              /\ ~HasCall(proc[p].calls, "mws.create")

\* both requests have completed, each having listed a table without ids
BothListedBeforeEitherCreated ==
    \A p \in DOMAIN proc :
        /\ proc[p].op = "sync"
        /\ proc[p].pc = "done"
        /\ proc[p].listed
        /\ proc[p].existing = {}

(***************************************************************************)
(* C20: when two /sync requests run at the same time and both list the     *)
(* table's records before either creates, no external_id is created twice: *)
(* once both have completed the table holds at most one record for each    *)
(* external_id.                                                            *)
(***************************************************************************)
C20_NoDuplicateAfterInterleavedSyncs ==
    BothListedBeforeEitherCreated => NoDuplicateIds(store)

\* requests served one after the other leave no duplicate
C20_NoDuplicateAfterSyncsInTurn == ~overlap => NoDuplicateIds(store)
====
